---------------------------- MODULE Spec2Model ----------------------------
(***************************************************************************)
(* Layout and collision algorithms of FeynMap.                             *)
(*                                                                         *)
(*  - computeTreeLayout (app/lib/treeLayout.ts): Buchheim / Reingold-      *)
(*    Tilford tree drawing, one step per firstWalk call, then the second   *)
(*    walk, toLayoutNode and centerRoot.                                   *)
(*  - resolveCollisions / resolveNewNodeCollisions                         *)
(*    (app/utils/expert-storage.ts): iterative pairwise relaxation, one    *)
(*    step per pass of the while loop.                                     *)
(*  - calculateHierarchicalLayout (app/components/ConceptCanvas.tsx): the  *)
(*    flat node/edge layout, one step per phase of the function.           *)
(*  - handleAddDiscoveredContent (app/components/ConceptCanvas.tsx): the   *)
(*    insertion of new concepts into a canvas, on the resolver's           *)
(*    variables, one step per phase of the handler.                        *)
(*                                                                         *)
(* JavaScript numbers are modelled as exact rationals <<n, d>> (d > 0, in  *)
(* lowest terms) extended with the IEEE-754 values +Infinity <<1, 0>>,     *)
(* -Infinity <<-1, 0>> and NaN <<0, 0>>.                                   *)
(***************************************************************************)
EXTENDS Integers, Sequences, FiniteSets, TLC

VARIABLES
    prog,     \* which exported function this run calls
    pc,       \* position inside that function
    tree,     \* computeTreeLayout: the input tree, tree[v] = parent of v (pre-order ids, 0 = dummy)
    rt,       \* computeTreeLayout: the RTNode fields z, m, c, s, t, a, x of every node
    k,        \* computeTreeLayout: number of firstWalk calls done (post-order)
    cfg,      \* computeTreeLayout: the LayoutConfig in effect
    lay,      \* computeTreeLayout: the LayoutNode fields x, y, leftExtent, rightExtent, width, level
    scene,    \* resolver: the caller's nodes as passed (existing, incoming), never written
    opts,     \* resolver: maxIterations, overlapThreshold, margin after defaults
    heap,     \* resolver: the position objects, heap[ref] = [x, y]
    nodesArg, \* resolver: the array nodes / existingNodes of the caller
    newArg,   \* resolver: the array newNodes of the caller
    rects,    \* resolveNewNodeCollisions: allExistingRects
    result,   \* resolver: the array result
    cur,      \* resolveNewNodeCollisions: index in result of the node being resolved
    iterations, \* resolver: the local iterations
    hasOverlap, \* resolver: the local hasOverlap
    inputNodes,  \* calculateHierarchicalLayout: the argument nodes, [id, level] each
    inputEdges,  \* calculateHierarchicalLayout: the argument edges, [source, target] each
    spacing,  \* calculateHierarchicalLayout: HORIZONTAL_SPACING (H) and VERTICAL_SPACING (V) of the copy called
    childrenMap,     \* calculateHierarchicalLayout: the local childrenMap
    parentMap,       \* calculateHierarchicalLayout: the local parentMap
    rootNode,        \* calculateHierarchicalLayout: the local rootNode
    subtreeWidths,   \* calculateHierarchicalLayout: the local subtreeWidths
    subtreeOrders,   \* calculateHierarchicalLayout: the local subtreeOrders
    nodePositions,   \* calculateHierarchicalLayout: the local nodePositions
    positionedNodes  \* calculateHierarchicalLayout: the array returned

treeVars == <<tree, rt, k, cfg, lay>>
resolveVars == <<scene, opts, heap, nodesArg, newArg, rects, result, cur, iterations, hasOverlap>>
hierVars == <<inputNodes, inputEdges, spacing, childrenMap, parentMap, rootNode, subtreeWidths,
              subtreeOrders, nodePositions, positionedNodes>>
vars == <<prog, pc, treeVars, resolveVars, hierVars>>

-----------------------------------------------------------------------------
(* Bounds of the model                                                     *)

MaxNodes == 8

\* the largest maxIterations a caller passes
MaxIterations == 2

\* the largest tree handed to calculateHierarchicalLayout
MaxHierNodes == 5

\* the largest tree handed to calculateHierarchicalLayout with an edge removed
\* or an edge added
MaxGraphNodes == 3

-----------------------------------------------------------------------------
(* JavaScript number arithmetic                                            *)

Abs(i) == IF i < 0 THEN -i ELSE i

Sign(i) == IF i < 0 THEN -1 ELSE IF i > 0 THEN 1 ELSE 0

RECURSIVE Gcd(_, _)
Gcd(a, b) == IF b = 0 THEN a ELSE Gcd(b, a % b)

NaN == <<0, 0>>
PosInf == <<1, 0>>
NegInf == <<-1, 0>>

IsNaN(a) == a = NaN
IsFinite(a) == a[2] > 0

\* lowest terms; a zero denominator keeps only the sign (an infinity or NaN)
Norm(n, d) ==
    IF d = 0 THEN <<Sign(n), 0>>
    ELSE LET g == Gcd(Abs(n), d) IN <<n \div g, d \div g>>

Num(i) == <<i, 1>>
Zero == Num(0)

RNeg(a) == <<-a[1], a[2]>>

RAdd(a, b) ==
    IF IsNaN(a) \/ IsNaN(b) THEN NaN
    ELSE IF ~IsFinite(a) /\ ~IsFinite(b) THEN (IF a = b THEN a ELSE NaN)
    ELSE IF ~IsFinite(a) THEN a
    ELSE IF ~IsFinite(b) THEN b
    ELSE LET g == Gcd(a[2], b[2])
         IN  Norm(a[1] * (b[2] \div g) + b[1] * (a[2] \div g), (a[2] \div g) * b[2])

RSub(a, b) == RAdd(a, RNeg(b))

\* a * i for an integer i # 0
RMulInt(a, i) ==
    IF IsFinite(a) THEN Norm(a[1] * i, a[2]) ELSE <<a[1] * Sign(i), 0>>

\* a / i for an integer i; i = 0 is JavaScript's +0
RDivInt(a, i) == Norm(a[1] * (IF i < 0 THEN -1 ELSE 1), a[2] * Abs(i))

\* a < b, false when either is NaN
RLt(a, b) ==
    IF IsNaN(a) \/ IsNaN(b) THEN FALSE
    ELSE IF ~IsFinite(a) \/ ~IsFinite(b)
         THEN (IF a = b THEN FALSE ELSE (a = NegInf \/ b = PosInf))
    ELSE LET g == Gcd(a[2], b[2]) IN a[1] * (b[2] \div g) < b[1] * (a[2] \div g)

RLe(a, b) == RLt(a, b) \/ (a = b /\ ~IsNaN(a))

\* Math.min / Math.max of two numbers: NaN when either is NaN
RMin(a, b) == IF IsNaN(a) \/ IsNaN(b) THEN NaN ELSE IF RLt(b, a) THEN b ELSE a
RMax(a, b) == IF IsNaN(a) \/ IsNaN(b) THEN NaN ELSE IF RLt(a, b) THEN b ELSE a

RAbs(a) == <<Abs(a[1]), a[2]>>

\* a * b; Infinity * 0 is NaN
RMul(a, b) ==
    IF IsNaN(a) \/ IsNaN(b) THEN NaN
    ELSE IF ~IsFinite(a) \/ ~IsFinite(b) THEN <<Sign(a[1]) * Sign(b[1]), 0>>
    ELSE LET g1 == Gcd(Abs(a[1]), b[2])
             g2 == Gcd(Abs(b[1]), a[2])
         IN  Norm((a[1] \div g1) * (b[1] \div g2), (a[2] \div g2) * (b[2] \div g1))

\* a / b; x / 0 is an infinity of the sign of x, 0 / 0 and Infinity / Infinity are NaN
RDiv(a, b) ==
    IF IsNaN(a) \/ IsNaN(b) THEN NaN
    ELSE IF ~IsFinite(b) THEN (IF IsFinite(a) THEN Zero ELSE NaN)
    ELSE IF b[1] = 0 THEN <<Sign(a[1]), 0>>
    ELSE IF ~IsFinite(a) THEN <<a[1] * Sign(b[1]), 0>>
    ELSE RMul(a, IF b[1] < 0 THEN <<-b[2], -b[1]>> ELSE <<b[2], b[1]>>)

\* the decimal literal n / d
Dec(n, d) == Norm(n, d)

\* the largest r with r * r <= n
RECURSIVE ISqrtFrom(_, _)
ISqrtFrom(n, r) == IF (r + 1) * (r + 1) > n THEN r ELSE ISqrtFrom(n, r + 1)

\* Math.sqrt(dx * dx + dy * dy): |dx| or |dy| when the other is 0, which is every
\* case the rows and columns of RowScenes / NewScenes produce; otherwise the root
\* of numerator and denominator, exact when both are squares
Hypot(dx, dy) ==
    IF dy = Zero THEN RAbs(dx)
    ELSE IF dx = Zero THEN RAbs(dy)
    ELSE LET q == RAdd(RMul(dx, dx), RMul(dy, dy))
         IN  Norm(ISqrtFrom(q[1], 0), ISqrtFrom(q[2], 0))

-----------------------------------------------------------------------------
(* computeTreeLayout: trees                                                *)

Null == 0 - 1

\* v and its ancestors below the dummy
RECURSIVE AncestorsOrSelf(_, _)
AncestorsOrSelf(p, v) == IF v = 0 THEN {} ELSE {v} \cup AncestorsOrSelf(p, p[v])

\* every ordered tree of n nodes, as the parent vector of its pre-order numbering
RECURSIVE TreesOfSize(_)
TreesOfSize(n) ==
    IF n = 1 THEN {<<0>>}
    ELSE UNION {{Append(p, q) : q \in AncestorsOrSelf(p, n - 1)} : p \in TreesOfSize(n - 1)}

Trees == UNION {TreesOfSize(n) : n \in 1..MaxNodes}

Nodes(p) == 1..Len(p)

ParentOf(p, v) == IF v = 0 THEN Null ELSE p[v]

ChildSet(p, v) == {c \in Nodes(p) : p[c] = v}

RECURSIVE SortedSeq(_)
SortedSeq(S) ==
    IF S = {} THEN <<>>
    ELSE LET lo == CHOOSE x \in S : \A y \in S : x <= y
         IN  <<lo>> \o SortedSeq(S \ {lo})

\* node.children, in input order
Children(p, v) == SortedSeq(ChildSet(p, v))

\* node.i, the index among siblings
IndexOf(p, v) == IF v = 0 THEN 0 ELSE Cardinality({c \in ChildSet(p, p[v]) : c < v})

RECURSIVE Depth(_, _)
Depth(p, v) == IF v = 0 THEN 0 - 1 ELSE 1 + Depth(p, p[v])

RECURSIVE SeqConcat(_)
SeqConcat(ss) == IF ss = <<>> THEN <<>> ELSE Head(ss) \o SeqConcat(Tail(ss))

\* the order in which rtEachAfter calls its callback
RECURSIVE PostOrder(_, _)
PostOrder(p, v) ==
    LET ch == Children(p, v)
    IN  SeqConcat([j \in 1..Len(ch) |-> PostOrder(p, ch[j])]) \o <<v>>

\* the order in which rtEachBefore calls its callback
RECURSIVE PreOrder(_, _)
PreOrder(p, v) ==
    LET ch == Children(p, v)
    IN  <<v>> \o SeqConcat([j \in 1..Len(ch) |-> PreOrder(p, ch[j])])

-----------------------------------------------------------------------------
(* computeTreeLayout: the Buchheim walk                                    *)

\* buildRTTree for the input and for the dummy parent (node 0)
BuildRT(p) ==
    [z |-> [v \in 0..Len(p) |-> Zero],
     m |-> [v \in 0..Len(p) |-> Zero],
     c |-> [v \in 0..Len(p) |-> Zero],
     s |-> [v \in 0..Len(p) |-> Zero],
     t |-> [v \in 0..Len(p) |-> Null],
     a |-> [v \in 0..Len(p) |-> v],
     x |-> [v \in 0..Len(p) |-> Zero]]

NextAncestor(p, r, vim, v, ancestor) ==
    IF r.a[vim] # Null /\ ParentOf(p, r.a[vim]) = ParentOf(p, v) THEN r.a[vim] ELSE ancestor

NextLeft(p, r, v) ==
    LET ch == Children(p, v) IN IF Len(ch) > 0 THEN ch[1] ELSE r.t[v]

NextRight(p, r, v) ==
    LET ch == Children(p, v) IN IF Len(ch) > 0 THEN ch[Len(ch)] ELSE r.t[v]

MoveSubtree(p, r, wm, wp, shift) ==
    LET change == RDivInt(shift, IndexOf(p, wp) - IndexOf(p, wm))
        r1 == [r EXCEPT !.c[wp] = RSub(@, change), !.s[wp] = RAdd(@, shift)]
        r2 == [r1 EXCEPT !.c[wm] = RAdd(@, change)]
    IN  [r2 EXCEPT !.z[wp] = RAdd(@, shift), !.m[wp] = RAdd(@, shift)]

\* the loop of executeShifts from child index j down to 1
RECURSIVE ExecuteShiftsFrom(_, _, _, _, _)
ExecuteShiftsFrom(r, ch, j, shift, change) ==
    IF j = 0 THEN r
    ELSE LET w == ch[j]
             r1 == [r EXCEPT !.z[w] = RAdd(@, shift), !.m[w] = RAdd(@, shift)]
             change1 == RAdd(change, r.c[w])
         IN  ExecuteShiftsFrom(r1, ch, j - 1, RAdd(shift, RAdd(r.s[w], change1)), change1)

ExecuteShifts(p, r, v) ==
    LET ch == Children(p, v) IN ExecuteShiftsFrom(r, ch, Len(ch), Zero, Zero)

\* the statements of apportion after its while loop
ApportionTail(p, r, v, ancestor, L) ==
    LET r1 == IF L.vim # Null /\ NextRight(p, r, L.vop) = Null
              THEN [r EXCEPT !.t[L.vop] = L.vim,
                             !.m[L.vop] = RAdd(@, RSub(L.sim, L.sop))]
              ELSE r
    IN  IF L.vip # Null /\ NextLeft(p, r1, L.vom) = Null
        THEN [rt |-> [r1 EXCEPT !.t[L.vom] = L.vip,
                                !.m[L.vom] = RAdd(@, RSub(L.sip, L.som))],
              ret |-> v, threw |-> FALSE, calls |-> L.calls]
        ELSE [rt |-> r1, ret |-> ancestor, threw |-> FALSE, calls |-> L.calls]

\* the while loop of apportion; L holds vip, vop, vim, vom and the four sums,
\* and calls: for each call of moveSubtree made its arguments and the vim that
\* gave the shift, as <<wm, wp, shift, vim>>.
\* Writing vop.a or reading vom.m when nextRight / nextLeft returned null
\* raises a TypeError.
RECURSIVE ApportionLoop(_, _, _, _, _)
ApportionLoop(p, r, v, ancestor, L) ==
    LET vim == NextRight(p, r, L.vim)
        vip == NextLeft(p, r, L.vip)
    IN  IF vim = Null \/ vip = Null
        THEN ApportionTail(p, r, v, ancestor, [L EXCEPT !.vim = vim, !.vip = vip])
        ELSE LET vom == NextLeft(p, r, L.vom)
                 vop == NextRight(p, r, L.vop)
             IN  IF vop = Null \/ vom = Null
                 THEN [rt |-> r, ret |-> ancestor, threw |-> TRUE, calls |-> L.calls]
                 ELSE LET r1 == [r EXCEPT !.a[vop] = v]
                          shift == RAdd(RSub(RSub(RAdd(r1.z[vim], L.sim), r1.z[vip]), L.sip),
                                        Num(1))
                          moved == RLt(Zero, shift)
                          r2 == IF moved
                                THEN MoveSubtree(p, r1, NextAncestor(p, r1, vim, v, ancestor),
                                                 v, shift)
                                ELSE r1
                          sip1 == IF moved THEN RAdd(L.sip, shift) ELSE L.sip
                          sop1 == IF moved THEN RAdd(L.sop, shift) ELSE L.sop
                      IN  ApportionLoop(p, r2, v, ancestor,
                              [vim |-> vim, vip |-> vip, vom |-> vom, vop |-> vop,
                               sim |-> RAdd(L.sim, r2.m[vim]),
                               sip |-> RAdd(sip1, r2.m[vip]),
                               som |-> RAdd(L.som, r2.m[vom]),
                               sop |-> RAdd(sop1, r2.m[vop]),
                               calls |-> IF moved
                                         THEN Append(L.calls,
                                                  <<NextAncestor(p, r1, vim, v, ancestor), v, shift, vim>>)
                                         ELSE L.calls])

Apportion(p, r, v, w, ancestor) ==
    IF w = Null THEN [rt |-> r, ret |-> ancestor, threw |-> FALSE, calls |-> <<>>]
    ELSE LET vom == Children(p, ParentOf(p, v))[1]
         IN  ApportionLoop(p, r, v, ancestor,
                 [vip |-> v, vop |-> v, vim |-> w, vom |-> vom,
                  sip |-> r.m[v], sop |-> r.m[v], sim |-> r.m[w], som |-> r.m[vom],
                  calls |-> <<>>])

\* separation(a, b) of computeTreeLayout
Separation(p, a, b) == IF ParentOf(p, a) = ParentOf(p, b) THEN 1 ELSE 2

\* firstWalk(v): the new fields, whether the call threw, and the calls of
\* moveSubtree it made
FirstWalk(p, r, v) ==
    LET ch == Children(p, v)
        par == ParentOf(p, v)
        siblings == Children(p, par)
        i == IndexOf(p, v)
        w == IF i # 0 THEN siblings[i] ELSE Null
    IN  IF Len(ch) > 0
        THEN LET r1 == ExecuteShifts(p, r, v)
                 midpoint == RDivInt(RAdd(r1.z[ch[1]], r1.z[ch[Len(ch)]]), 2)
                 r2 == IF w # Null
                       THEN LET z == RAdd(r1.z[w], Num(Separation(p, w, v)))
                            IN  [r1 EXCEPT !.z[v] = z, !.m[v] = RSub(z, midpoint)]
                       ELSE [r1 EXCEPT !.z[v] = midpoint]
                 ap == Apportion(p, r2, v, w,
                                 IF r2.a[par] # Null THEN r2.a[par] ELSE siblings[1])
             IN  [rt |-> [ap.rt EXCEPT !.a[par] = ap.ret], threw |-> ap.threw,
                  calls |-> ap.calls]
        ELSE IF w # Null
        THEN [rt |-> [r EXCEPT !.z[v] = RAdd(r.z[w], Num(Separation(p, w, v)))],
              threw |-> FALSE, calls |-> <<>>]
        ELSE [rt |-> r, threw |-> FALSE, calls |-> <<>>]

\* secondWalk over the nodes of order[j..], parents before children
RECURSIVE SecondWalkFrom(_, _, _, _)
SecondWalkFrom(p, r, order, j) ==
    IF j > Len(order) THEN r
    ELSE LET v == order[j]
             pm == r.m[ParentOf(p, v)]
         IN  SecondWalkFrom(p, [r EXCEPT !.x[v] = RAdd(r.z[v], pm), !.m[v] = RAdd(@, pm)],
                            order, j + 1)

\* buchheimLayout after the first walk: root.parent.m = -root.z, then the second walk
SecondWalk(p, r) ==
    SecondWalkFrom(p, [r EXCEPT !.m[0] = RNeg(r.z[1])], PreOrder(p, 1), 1)

-----------------------------------------------------------------------------
(* computeTreeLayout: pixels                                               *)

DEFAULT_CONFIG ==
    [nodeWidth |-> 120, nodeHeight |-> 44, levelGap |-> 80, siblingGap |-> 24,
     collisionMargin |-> 20]

\* the configurations a caller passes: none, or an override of some fields
Configs == {DEFAULT_CONFIG, [DEFAULT_CONFIG EXCEPT !.nodeWidth = 100, !.siblingGap = 10, !.levelGap = 56]}

GetScale(config) == config.nodeWidth + config.siblingGap

\* Math.min / Math.max of first and the values f[ch[j..]]
RECURSIVE MinOver(_, _, _, _)
MinOver(first, f, ch, j) ==
    IF j > Len(ch) THEN first ELSE MinOver(RMin(first, f[ch[j]]), f, ch, j + 1)

RECURSIVE MaxOver(_, _, _, _)
MaxOver(first, f, ch, j) ==
    IF j > Len(ch) THEN first ELSE MaxOver(RMax(first, f[ch[j]]), f, ch, j + 1)

\* a mutation of LayoutY: the gap between levels is left out
LayoutYNoGap(config, level) == level * config.nodeHeight

\* y of toLayoutNode
LayoutY(config, level) == level * (config.nodeHeight + config.levelGap)

\* toLayoutNode applied to the nodes of order[j..], children before parents
RECURSIVE ToLayoutFrom(_, _, _, _, _, _)
ToLayoutFrom(p, r, config, order, j, l) ==
    IF j > Len(order) THEN l
    ELSE LET v == order[j]
             level == Depth(p, v)
             x == RMulInt(r.x[v], GetScale(config))
             half == Norm(config.nodeWidth, 2)
             ch == Children(p, v)
             leftExtent == MinOver(RSub(x, half), l.leftExtent, ch, 1)
             rightExtent == MaxOver(RAdd(x, half), l.rightExtent, ch, 1)
         IN  ToLayoutFrom(p, r, config, order, j + 1,
                 [l EXCEPT !.x[v] = x,
                           !.y[v] = LayoutY(config, level),
                           !.leftExtent[v] = leftExtent,
                           !.rightExtent[v] = rightExtent,
                           !.width[v] = RSub(rightExtent, leftExtent),
                           !.height[v] = config.nodeHeight,
                           !.level[v] = level])

NoLayout(p) ==
    [x |-> [v \in Nodes(p) |-> Zero], y |-> [v \in Nodes(p) |-> 0],
     leftExtent |-> [v \in Nodes(p) |-> Zero], rightExtent |-> [v \in Nodes(p) |-> Zero],
     width |-> [v \in Nodes(p) |-> Zero], height |-> [v \in Nodes(p) |-> 0],
     level |-> [v \in Nodes(p) |-> 0]]

ToLayoutNode(p, r, config) == ToLayoutFrom(p, r, config, PostOrder(p, 1), 1, NoLayout(p))

\* a mutation of CenterRoot: the shift brings the root's own x to 0
CenterRootOnOwnX(p, l) ==
    LET shift == RNeg(l.x[1])
    IN  [l EXCEPT !.x = [v \in Nodes(p) |-> RAdd(l.x[v], shift)],
                  !.leftExtent = [v \in Nodes(p) |-> RAdd(l.leftExtent[v], shift)],
                  !.rightExtent = [v \in Nodes(p) |-> RAdd(l.rightExtent[v], shift)]]

\* centerRoot: the shift brings the midpoint of the root's extent to 0
CenterRoot(p, l) ==
    LET mid == RDivInt(RAdd(l.leftExtent[1], l.rightExtent[1]), 2)
        shift == RNeg(mid)
    IN  [l EXCEPT !.x = [v \in Nodes(p) |-> RAdd(l.x[v], shift)],
                  !.leftExtent = [v \in Nodes(p) |-> RAdd(l.leftExtent[v], shift)],
                  !.rightExtent = [v \in Nodes(p) |-> RAdd(l.rightExtent[v], shift)]]

-----------------------------------------------------------------------------
(* Collision resolver: rectangles                                          *)

\* a mutation of GetNodeRect: the size of the node is ignored
GetNodeRectUnsized(h, node) ==
    [x |-> h[node.position].x,
     y |-> h[node.position].y,
     width |-> Num(180),
     height |-> Num(80)]

\* getNodeRect: the measured or declared size, else 180 x 80
GetNodeRect(h, node) ==
    [x |-> h[node.position].x,
     y |-> h[node.position].y,
     width |-> IF node.width # Null THEN Num(node.width) ELSE Num(180),
     height |-> IF node.height # Null THEN Num(node.height) ELSE Num(80)]

RectsOverlap(a, b, margin) ==
    ~(\/ RLe(RAdd(RAdd(a.x, a.width), margin), b.x)
      \/ RLe(RAdd(RAdd(b.x, b.width), margin), a.x)
      \/ RLe(RAdd(RAdd(a.y, a.height), margin), b.y)
      \/ RLe(RAdd(RAdd(b.y, b.height), margin), a.y))

GetOverlapAmount(a, b, margin) ==
    [x |-> RSub(RMin(RAdd(RAdd(a.x, a.width), margin), RAdd(RAdd(b.x, b.width), margin)),
                RMax(a.x, b.x)),
     y |-> RSub(RMin(RAdd(RAdd(a.y, a.height), margin), RAdd(RAdd(b.y, b.height), margin)),
                RMax(a.y, b.y))]

\* a mutation of Direction: the vector is normalised without testing distance > 0
DirectionUnguarded(fromX, fromY, toX, toY) ==
    [dx |-> RDiv(RSub(toX, fromX), Hypot(RSub(toX, fromX), RSub(toY, fromY))),
     dy |-> RDiv(RSub(toY, fromY), Hypot(RSub(toX, fromX), RSub(toY, fromY)))]

\* the unit vector from (fromX, fromY) to (toX, toY), or (1, 0) when they coincide
Direction(fromX, fromY, toX, toY) ==
    LET dx == RSub(toX, fromX)
        dy == RSub(toY, fromY)
        distance == Hypot(dx, dy)
    IN  IF RLt(Zero, distance)
        THEN [dx |-> RDiv(dx, distance), dy |-> RDiv(dy, distance)]
        ELSE [dx |-> Num(1), dy |-> Zero]

CenterX(r) == RAdd(r.x, RDivInt(r.width, 2))
CenterY(r) == RAdd(r.y, RDivInt(r.height, 2))

-----------------------------------------------------------------------------
(* resolveCollisions                                                       *)

\* a number the caller left out
Undefined == <<>>

\* the options of resolveCollisions after destructuring with defaults; Null and
\* Undefined are options the caller left out
CollisionDefaults(o) ==
    [maxIterations |-> o.maxIterations,
     overlapThreshold |-> IF o.overlapThreshold = Undefined THEN Dec(1, 10)
                          ELSE o.overlapThreshold,
     margin |-> Num(IF o.margin = Null THEN 20 ELSE o.margin)]

\* the options of resolveNewNodeCollisions after destructuring with defaults
NewNodeDefaults(o) ==
    [maxIterations |-> o.maxIterations,
     overlapThreshold |-> o.overlapThreshold,
     margin |-> Num(IF o.margin = Null THEN 25 ELSE o.margin)]

\* a mutation of CopyPosition: the copy shares the caller's position object
CopyPositionShared(node, fresh) == node.position

\* position: { ...node.position }: the copy owns a fresh position object
CopyPosition(node, fresh) == fresh

\* nodes.map((node) => ({ ...node, position: { ...node.position } })), the fresh
\* position objects taken from base + 1, base + 2, ...
CopyNodes(nodes, base) ==
    [j \in 1..Len(nodes) |-> [nodes[j] EXCEPT !.position = CopyPosition(nodes[j], base + j)]]

\* the heap after that map
CopyHeap(h, nodes, base) ==
    [r \in DOMAIN h \cup {base + j : j \in 1..Len(nodes)} |->
        IF r \in DOMAIN h THEN h[r] ELSE h[nodes[r - base].position]]

\* a mutation of ApplyPush: only nodeB is moved
ApplyPushOneSided(h, nodeA, nodeB, moveX, moveY) ==
    [h EXCEPT ![nodeB.position] = [x |-> RAdd(@.x, moveX), y |-> RAdd(@.y, moveY)]]

\* nodeA.position -= move; nodeB.position += move
ApplyPush(h, nodeA, nodeB, moveX, moveY) ==
    LET h1 == [h EXCEPT ![nodeA.position] = [x |-> RSub(@.x, moveX), y |-> RSub(@.y, moveY)]]
    IN  [h1 EXCEPT ![nodeB.position] = [x |-> RAdd(@.x, moveX), y |-> RAdd(@.y, moveY)]]

\* the element of a set of one element. In {F(x) : x \in {e}} the value of e is
\* computed once, however often F uses x: this is how the constants of a loop
\* body (const rectA = ..., const overlap = ...) are bound below
The(S) == CHOOSE x \in S : TRUE

\* the body of the inner for loop of resolveCollisions for the pair nodeA, nodeB
PushPair(h, nodeA, nodeB, o) ==
    The({IF ~RectsOverlap(rectA, rectB, o.margin) THEN [heap |-> h, overlap |-> FALSE]
         ELSE The({LET pushX == IF RLt(overlap.y, overlap.x) THEN RMul(overlap.x, Dec(8, 10))
                                ELSE RMul(overlap.x, Dec(6, 10))
                       pushY == IF RLt(overlap.x, overlap.y) THEN RMul(overlap.y, Dec(5, 10))
                                ELSE RMul(overlap.y, Dec(3, 10))
                   IN  The({[heap |-> ApplyPush(h, nodeA, nodeB, moveX, moveY), overlap |-> TRUE] :
                               moveX \in {RMul(RMul(RMul(d.dx, pushX), o.overlapThreshold),
                                               Dec(15, 10))},
                               moveY \in {RMul(RMul(d.dy, pushY), o.overlapThreshold)}}) :
                      overlap \in {GetOverlapAmount(rectA, rectB, o.margin)},
                      d \in {Direction(CenterX(rectA), CenterY(rectA),
                                       CenterX(rectB), CenterY(rectB))}}) :
            rectA \in {GetNodeRect(h, nodeA)}, rectB \in {GetNodeRect(h, nodeB)}})

\* a mutation of PassFrom: hasOverlap tells of the last pair only
RECURSIVE PassFromLastPair(_, _, _, _, _, _)
PassFromLastPair(h, res, o, i, j, any) ==
    IF i > Len(res) THEN [heap |-> h, hasOverlap |-> any]
    ELSE IF j > Len(res) THEN PassFromLastPair(h, res, o, i + 1, i + 2, any)
    ELSE The({PassFromLastPair(p.heap, res, o, i, j + 1, p.overlap) :
                 p \in {PushPair(h, res[i], res[j], o)}})

\* the two for loops of one pass of resolveCollisions, from the pair (i, j) on
RECURSIVE PassFrom(_, _, _, _, _, _)
PassFrom(h, res, o, i, j, any) ==
    IF i > Len(res) THEN [heap |-> h, hasOverlap |-> any]
    ELSE IF j > Len(res) THEN PassFrom(h, res, o, i + 1, i + 2, any)
    ELSE The({IF p.overlap THEN PassFrom(p.heap, res, o, i, j + 1, TRUE)
              ELSE PassFrom(h, res, o, i, j + 1, any) :
                 p \in {PushPair(h, res[i], res[j], o)}})

-----------------------------------------------------------------------------
(* resolveNewNodeCollisions                                                *)

\* a mutation of PushNewNode: the push is applied to the obstacle's own position
PushNewNodeMovesOther(h, newNode, other, moveX, moveY) ==
    [h EXCEPT ![other.position] = [x |-> RSub(@.x, moveX), y |-> RSub(@.y, moveY)]]

\* newNode.position += move; other, the node whose rectangle newNode overlaps,
\* is not written
PushNewNode(h, newNode, other, moveX, moveY) ==
    [h EXCEPT ![newNode.position] = [x |-> RAdd(@.x, moveX), y |-> RAdd(@.y, moveY)]]

\* the body of the loop over allExistingRects
PushFromExisting(h, newNode, newRect, existingRect, existingNode, o) ==
    IF ~RectsOverlap(newRect, existingRect, o.margin) THEN [heap |-> h, overlap |-> FALSE]
    ELSE The({LET pushAmount == IF RLt(overlap.y, overlap.x) THEN RMul(overlap.x, Dec(9, 10))
                                ELSE RMul(RMax(overlap.x, overlap.y), Dec(6, 10))
              IN  The({[heap |-> PushNewNode(h, newNode, existingNode, moveX, moveY),
                        overlap |-> TRUE] :
                          moveX \in {RMul(RMul(d.dx, pushAmount), Dec(13, 10))},
                          moveY \in {RMul(d.dy, pushAmount)}}) :
                 overlap \in {GetOverlapAmount(newRect, existingRect, o.margin)},
                 d \in {Direction(CenterX(existingRect), CenterY(existingRect),
                                  CenterX(newRect), CenterY(newRect))}})

\* the body of the loop over the other nodes of result
PushFromOtherNew(h, newNode, newRect, otherNew, o) ==
    The({IF ~RectsOverlap(newRect, otherRect, o.margin) THEN [heap |-> h, overlap |-> FALSE]
         ELSE The({LET pushAmount == IF RLt(overlap.y, overlap.x)
                                     THEN RMul(overlap.x, Dec(5, 10))
                                     ELSE RMul(RMax(overlap.x, overlap.y), Dec(3, 10))
                   IN  The({[heap |-> PushNewNode(h, newNode, otherNew, moveX, moveY),
                             overlap |-> TRUE] :
                               moveX \in {RMul(RMul(d.dx, pushAmount), Dec(12, 10))},
                               moveY \in {RMul(d.dy, pushAmount)}}) :
                      overlap \in {GetOverlapAmount(newRect, otherRect, o.margin)},
                      d \in {Direction(CenterX(otherRect), CenterY(otherRect),
                                       CenterX(newRect), CenterY(newRect))}}) :
            otherRect \in {GetNodeRect(h, otherNew)}})

\* for (const existingRect of allExistingRects), from index j on
RECURSIVE ExistingFrom(_, _, _, _, _, _, _, _)
ExistingFrom(h, newNode, newRect, existingRects, existing, o, j, any) ==
    IF j > Len(existingRects) THEN [heap |-> h, hasOverlap |-> any]
    ELSE The({ExistingFrom(p.heap, newNode, newRect, existingRects, existing, o, j + 1,
                           any \/ p.overlap) :
                 p \in {PushFromExisting(h, newNode, newRect, existingRects[j], existing[j],
                                         o)}})

\* for (const otherNew of result), from index j on; c is the index of newNode
RECURSIVE OtherNewFrom(_, _, _, _, _, _, _)
OtherNewFrom(h, res, c, newRect, o, j, any) ==
    IF j > Len(res) THEN [heap |-> h, hasOverlap |-> any]
    ELSE IF j = c THEN OtherNewFrom(h, res, c, newRect, o, j + 1, any)
    ELSE The({OtherNewFrom(p.heap, res, c, newRect, o, j + 1, any \/ p.overlap) :
                 p \in {PushFromOtherNew(h, res[c], newRect, res[j], o)}})

\* the body of the while loop of resolveNewNodeCollisions for result[c]
NewNodePass(h, res, c, existingRects, existing, o) ==
    The({The({OtherNewFrom(e.heap, res, c, newRect, o, 1, e.hasOverlap) :
                 e \in {ExistingFrom(h, res[c], newRect, existingRects, existing, o, 1,
                                     FALSE)}}) :
            newRect \in {GetNodeRect(h, res[c])}})

-----------------------------------------------------------------------------
(* calculateHierarchicalLayout (app/components/ConceptCanvas.tsx)          *)

\* map[key] || default, for a Record<string, T> held as a function on its keys
Lookup(map, key, default) == IF key \in DOMAIN map THEN map[key] ELSE default

\* map[key] = val
Put(map, key, val) ==
    [q \in DOMAIN map \cup {key} |-> IF q = key THEN val ELSE map[q]]

\* nodes.forEach((node) => { childrenMap[node.id] = [] }), from index j on
RECURSIVE EmptyChildrenFrom(_, _, _)
EmptyChildrenFrom(ns, j, cm) ==
    IF j > Len(ns) THEN cm ELSE EmptyChildrenFrom(ns, j + 1, Put(cm, ns[j].id, <<>>))

\* edges.forEach: childrenMap[edge.source].push(edge.target), from index j on
RECURSIVE ChildrenMapFrom(_, _, _)
ChildrenMapFrom(es, j, cm) ==
    IF j > Len(es) THEN cm
    ELSE ChildrenMapFrom(es, j + 1,
             Put(cm, es[j].source, Append(Lookup(cm, es[j].source, <<>>), es[j].target)))

\* edges.forEach: parentMap[edge.target] = edge.source, from index j on
RECURSIVE ParentMapFrom(_, _, _)
ParentMapFrom(es, j, pm) ==
    IF j > Len(es) THEN pm ELSE ParentMapFrom(es, j + 1, Put(pm, es[j].target, es[j].source))

\* no node: what find returns when nothing matches, and nodes[0] of an empty array
NoNode == [id |-> "", level |-> Null]

\* nodes.find((n) => n.id === "root" || n.level === 0 || !parentMap[n.id]), from index j on
RECURSIVE FindFrom(_, _, _)
FindFrom(ns, pm, j) ==
    IF j > Len(ns) THEN NoNode
    ELSE IF ns[j].id = "root" \/ ns[j].level = 0 \/ ns[j].id \notin DOMAIN pm THEN ns[j]
    ELSE FindFrom(ns, pm, j + 1)

\* nodes.find(...) || nodes[0]
RootNode(ns, pm) ==
    IF FindFrom(ns, pm, 1) # NoNode THEN FindFrom(ns, pm, 1)
    ELSE IF Len(ns) > 0 THEN ns[1] ELSE NoNode

\* a mutation of SumFrom: the greatest of the widths instead of their sum
RECURSIVE GreatestFrom(_, _)
GreatestFrom(ws, j) ==
    IF j > Len(ws) THEN 0
    ELSE IF ws[j] > GreatestFrom(ws, j + 1) THEN ws[j] ELSE GreatestFrom(ws, j + 1)

\* widths.reduce((sum, width) => sum + width, 0), from index j on
RECURSIVE SumFrom(_, _)
SumFrom(ws, j) == IF j > Len(ws) THEN 0 ELSE ws[j] + SumFrom(ws, j + 1)

\* the barycenter <<sum, count>> of a child: the mean of its grandchildren's slot
\* centers, or its index when it has none
RECURSIVE PositionsSumFrom(_, _, _, _)
PositionsSumFrom(ws, H, j, cumulativeWidth) ==
    IF j > Len(ws) THEN 0
    ELSE (cumulativeWidth + ws[j] \div 2)
         + PositionsSumFrom(ws, H, j + 1, cumulativeWidth + ws[j] + H)

\* a mutation of Barycenter: every child has its index as barycenter
BarycenterByIndex(cm, widths, H, childId, index) == <<index, 1>>

Barycenter(cm, widths, H, childId, index) ==
    LET grandchildren == Lookup(cm, childId, <<>>)
        grandchildWidths == [g \in 1..Len(grandchildren) |-> Lookup(widths, grandchildren[g], H)]
    IN  IF Len(grandchildren) > 0
        THEN <<PositionsSumFrom(grandchildWidths, H, 1, 0), Len(grandchildren)>>
        ELSE <<index, 1>>

\* b.barycenter - a.barycenter < 0, the comparison of a descending sort
BarycenterMore(a, b) == b.barycenter[1] * a.barycenter[2] < a.barycenter[1] * b.barycenter[2]

\* a.barycenter - b.barycenter < 0
BarycenterLess(a, b) == a.barycenter[1] * b.barycenter[2] < b.barycenter[1] * a.barycenter[2]

\* a mutation of InsertByBarycenter: c goes before the elements it equals
RECURSIVE InsertBeforeEqual(_, _)
InsertBeforeEqual(s, c) ==
    IF Len(s) = 0 THEN <<c>>
    ELSE IF ~BarycenterLess(s[Len(s)], c)
         THEN Append(InsertBeforeEqual(SubSeq(s, 1, Len(s) - 1), c), s[Len(s)])
         ELSE Append(s, c)

\* Array.prototype.sort with (a, b) => a.barycenter - b.barycenter: a stable
\* sort, here by insertion of c into the sorted s
RECURSIVE InsertByBarycenter(_, _)
InsertByBarycenter(s, c) ==
    IF Len(s) = 0 THEN <<c>>
    ELSE IF BarycenterLess(c, s[Len(s)])
         THEN Append(InsertByBarycenter(SubSeq(s, 1, Len(s) - 1), c), s[Len(s)])
         ELSE Append(s, c)

RECURSIVE SortByBarycenterFrom(_, _, _)
SortByBarycenterFrom(cs, j, acc) ==
    IF j > Len(cs) THEN acc ELSE SortByBarycenterFrom(cs, j + 1, InsertByBarycenter(acc, cs[j]))

\* calculateSubtree(nodeId): st holds subtreeWidths, subtreeOrders, the value
\* returned and overflow, the call stack running out; path is the ids of the
\* calls on the stack, and a call for an id already on it recurs for ever
RECURSIVE CalculateSubtree(_, _, _, _, _)
RECURSIVE CalculateChildren(_, _, _, _, _, _, _)
CalculateSubtree(cm, H, nodeId, path, st) ==
    IF nodeId \in path THEN [st EXCEPT !.overflow = TRUE]
    ELSE LET children == Lookup(cm, nodeId, <<>>)
         IN  IF Len(children) = 0
             THEN [st EXCEPT !.subtreeWidths = Put(@, nodeId, H),
                             !.subtreeOrders = Put(@, nodeId, <<>>),
                             !.width = H]
             ELSE LET r == CalculateChildren(cm, H, children, 1, path \cup {nodeId}, st, <<>>)
                      totalWidth == SumFrom(r.childWidths, 1) + (Len(children) - 1) * H
                      childrenWithBarycenters ==
                          [j \in 1..Len(children) |->
                              [id |-> children[j],
                               barycenter |-> Barycenter(cm, r.st.subtreeWidths, H, children[j], j - 1),
                               width |-> r.childWidths[j],
                               index |-> j - 1]]
                      sorted == SortByBarycenterFrom(childrenWithBarycenters, 1, <<>>)
                  IN  IF r.st.overflow THEN r.st
                      ELSE [r.st EXCEPT !.subtreeOrders =
                                            Put(@, nodeId, [j \in 1..Len(sorted) |-> sorted[j].id]),
                                        !.subtreeWidths = Put(@, nodeId, totalWidth),
                                        !.width = totalWidth]

\* children.map((childId) => calculateSubtree(childId)), from index j on
CalculateChildren(cm, H, children, j, path, st, childWidths) ==
    IF j > Len(children) \/ st.overflow THEN [st |-> st, childWidths |-> childWidths]
    ELSE LET r == CalculateSubtree(cm, H, children[j], path, st)
         IN  CalculateChildren(cm, H, children, j + 1, path, r, Append(childWidths, r.width))

\* a child row that descends by HORIZONTAL_SPACING
ChildYByHorizontal(y, sp) == y + sp.H

\* y + VERTICAL_SPACING, the y positionNode hands to the children
ChildY(y, sp) == y + sp.V

\* positionNode(nodeId, x, y, level): np is nodePositions; sp holds
\* HORIZONTAL_SPACING as H and VERTICAL_SPACING as V
RECURSIVE PositionNode(_, _, _, _, _, _, _, _)
RECURSIVE PositionChildren(_, _, _, _, _, _, _, _, _, _)
PositionNode(cm, orders, widths, sp, nodeId, x, y, np) ==
    LET np1 == Put(np, nodeId, [x |-> x, y |-> y])
        children == Lookup(orders, nodeId, Lookup(cm, nodeId, <<>>))
        childWidths == [j \in 1..Len(children) |-> Lookup(widths, children[j], sp.H)]
        totalWidth == SumFrom(childWidths, 1) + (Len(children) - 1) * sp.H
    IN  IF Len(children) = 0 THEN np1
        ELSE PositionChildren(cm, orders, widths, sp, children, childWidths, 1,
                              x - totalWidth \div 2, y, np1)

\* children.forEach((childId, index) => ...), from index j on
PositionChildren(cm, orders, widths, sp, children, childWidths, j, currentX, y, np) ==
    IF j > Len(children) THEN np
    ELSE PositionChildren(cm, orders, widths, sp, children, childWidths, j + 1,
                          currentX + childWidths[j] + sp.H, y,
                          PositionNode(cm, orders, widths, sp, children[j],
                                       currentX + childWidths[j] \div 2, ChildY(y, sp), np))

\* a nodesWithLevels.forEach without the test of position: every node is pushed
RECURSIVE PositionedFromUnfiltered(_, _, _)
PositionedFromUnfiltered(ns, np, j) ==
    IF j > Len(ns) THEN <<>>
    ELSE <<[id |-> ns[j].id, level |-> ns[j].level,
            position |-> Lookup(np, ns[j].id, [x |-> 0, y |-> 0])]>>
         \o PositionedFromUnfiltered(ns, np, j + 1)

\* nodesWithLevels.forEach: the nodes that have a position, in array order
RECURSIVE PositionedFrom(_, _, _)
PositionedFrom(ns, np, j) ==
    IF j > Len(ns) THEN <<>>
    ELSE (IF ns[j].id \in DOMAIN np
          THEN <<[id |-> ns[j].id, level |-> ns[j].level, position |-> np[ns[j].id]]>>
          ELSE <<>>) \o PositionedFrom(ns, np, j + 1)

-----------------------------------------------------------------------------
(* computeTreeLayout as a state machine                                    *)

\* the resolver's variables while it is not running
ResolveIdle ==
    /\ scene = [existing |-> <<>>, incoming |-> <<>>]
    /\ opts = [maxIterations |-> 0, overlapThreshold |-> Zero, margin |-> Zero]
    /\ heap = <<>>
    /\ nodesArg = <<>>
    /\ newArg = <<>>
    /\ rects = <<>>
    /\ result = <<>>
    /\ cur = 0
    /\ iterations = 0
    /\ hasOverlap = FALSE

\* the variables of calculateHierarchicalLayout while it is not running
HierIdle ==
    /\ inputNodes = <<>>
    /\ inputEdges = <<>>
    /\ spacing = [H |-> 0, V |-> 0]
    /\ childrenMap = <<>>
    /\ parentMap = <<>>
    /\ rootNode = NoNode
    /\ subtreeWidths = <<>>
    /\ subtreeOrders = <<>>
    /\ nodePositions = <<>>
    /\ positionedNodes = <<>>

\* the tree layout's variables while it is not running
TreeIdle ==
    /\ tree = <<0>>
    /\ cfg = DEFAULT_CONFIG
    /\ rt = BuildRT(<<0>>)
    /\ k = 0
    /\ lay = NoLayout(<<0>>)

TreeInit ==
    /\ prog = "computeTreeLayout"
    /\ tree \in Trees
    /\ cfg \in Configs
    /\ pc = "firstWalk"
    /\ rt = BuildRT(tree)
    /\ k = 0
    /\ lay = NoLayout(tree)
    /\ ResolveIdle
    /\ HierIdle

\* one callback of rtEachAfter(root, firstWalk); a TypeError leaves the function
TreeFirstWalk ==
    /\ pc = "firstWalk"
    /\ LET res == FirstWalk(tree, rt, PostOrder(tree, 1)[k + 1])
       IN  IF res.threw
           THEN /\ pc' = "threw"
                /\ UNCHANGED <<rt, k>>
           ELSE /\ rt' = res.rt
                /\ k' = k + 1
                /\ pc' = IF k + 1 = Len(tree) THEN "secondWalk" ELSE "firstWalk"
    /\ UNCHANGED <<prog, tree, cfg, lay, resolveVars, hierVars>>

TreeSecondWalk ==
    /\ pc = "secondWalk"
    /\ rt' = SecondWalk(tree, rt)
    /\ pc' = "toLayoutNode"
    /\ UNCHANGED <<prog, tree, cfg, k, lay, resolveVars, hierVars>>

TreeToLayoutNode ==
    /\ pc = "toLayoutNode"
    /\ lay' = ToLayoutNode(tree, rt, cfg)
    /\ pc' = "centerRoot"
    /\ UNCHANGED <<prog, tree, cfg, k, rt, resolveVars, hierVars>>

TreeCenterRoot ==
    /\ pc = "centerRoot"
    /\ lay' = CenterRoot(tree, lay)
    /\ pc' = "done"
    /\ UNCHANGED <<prog, tree, cfg, k, rt, resolveVars, hierVars>>

TreeNext ==
    \/ TreeFirstWalk
    \/ TreeSecondWalk
    \/ TreeToLayoutNode
    \/ TreeCenterRoot

SpecTree == TreeInit /\ [][TreeNext]_vars

-----------------------------------------------------------------------------
(* The resolver as a state machine                                         *)

\* coordinates of the rectangles along the axis of a scene
Coords == {0, 40, 110, 150}
ObstacleCoords == {0, 240}
IncomingCoords == {110, 125, 380}

\* a node of 100 x 40 at coordinate c of a row (y = 0) or a column (x = 0)
NodeAt(id, axis, c) ==
    [id |-> id, x |-> IF axis = "row" THEN c ELSE 0, y |-> IF axis = "row" THEN 0 ELSE c,
     width |-> 100, height |-> 40]

\* a node without measured or declared size
UnsizedNodeAt(id, axis, c) == [NodeAt(id, axis, c) EXCEPT !.width = Null, !.height = Null]

SeqsOver(S, lo, hi) == UNION {[1..n -> S] : n \in lo..hi}

\* two rectangles of a column that coincide are pushed out of the column, after
\* which directions are no longer along an axis: columns hold distinct coordinates
Aligned(axis, cs) == axis = "row" \/ \A i, j \in 1..Len(cs) : i # j => cs[i] # cs[j]

\* the node arrays passed to resolveCollisions: two or three rectangles in one
\* row or one column, sized or unsized
RowScenes ==
    {[existing |-> [j \in 1..Len(ca[1]) |-> NodeAt(j, ca[2], ca[1][j])], incoming |-> <<>>] :
        ca \in {q \in SeqsOver(Coords, 2, 3) \X {"row", "column"} : Aligned(q[2], q[1])}}
    \cup
    {[existing |-> [j \in 1..Len(cs) |-> UnsizedNodeAt(j, "row", cs[j])], incoming |-> <<>>] :
        cs \in SeqsOver(Coords, 2, 2)}

\* the node arrays passed to resolveNewNodeCollisions: up to two obstacles (one
\* of them where a new node arrives) and one or two new nodes in one row or one
\* column
NewScenes ==
    {[existing |-> [j \in 1..Len(es) |-> NodeAt(j, ca[2], es[j])],
      incoming |-> [j \in 1..Len(ca[1]) |-> NodeAt(Len(es) + j, ca[2], ca[1][j])]] :
        es \in {<<>>, <<0>>, <<110>>, <<0, 240>>},
        ca \in {q \in SeqsOver(IncomingCoords, 1, 2) \X {"row", "column"} :
                   Aligned(q[2], q[1])}}

\* the caller's position objects: one per node, existing nodes first
SceneHeap(sc) ==
    LET all == sc.existing \o sc.incoming
    IN  [r \in 1..Len(all) |-> [x |-> Num(all[r].x), y |-> Num(all[r].y)]]

\* the caller's node array for the scene nodes ns, their position objects from base + 1 on
SceneNodes(ns, base) ==
    [j \in 1..Len(ns) |->
        [id |-> ns[j].id, position |-> base + j, width |-> ns[j].width,
         height |-> ns[j].height]]

\* the values of maxIterations tried on a scene: up to MaxIterations passes over
\* two rectangles, one pass over more (the exact positions outgrow TLC's
\* integers otherwise)
PassLimits(sc) ==
    IF Len(sc.existing) + Len(sc.incoming) <= 2 THEN 1..MaxIterations ELSE {1}

ResolveInit ==
    /\ prog = "resolveCollisions"
    /\ pc = "enter"
    /\ scene \in RowScenes
    /\ opts \in {CollisionDefaults([maxIterations |-> n, overlapThreshold |-> t, margin |-> m]) :
                    n \in PassLimits(scene), t \in {Undefined, Dec(5, 10)}, m \in {Null, 30}}
    /\ heap = SceneHeap(scene)
    /\ nodesArg = SceneNodes(scene.existing, 0)
    /\ newArg = <<>>
    /\ rects = <<>>
    /\ result = <<>>
    /\ cur = 0
    /\ iterations = 0
    /\ hasOverlap = FALSE
    /\ TreeIdle
    /\ HierIdle

NewInit ==
    /\ prog = "resolveNewNodeCollisions"
    /\ pc = "enter"
    /\ scene \in NewScenes
    /\ opts \in {NewNodeDefaults([maxIterations |-> n, overlapThreshold |-> Undefined, margin |-> m]) :
                    n \in 1..MaxIterations, m \in {Null, 30}}
    /\ heap = SceneHeap(scene)
    /\ nodesArg = SceneNodes(scene.existing, 0)
    /\ newArg = SceneNodes(scene.incoming, Len(scene.existing))
    /\ rects = <<>>
    /\ result = <<>>
    /\ cur = 0
    /\ iterations = 0
    /\ hasOverlap = FALSE
    /\ TreeIdle
    /\ HierIdle

\* a mutation of LoopContinues: the cap is tested with <=
LoopContinuesOffByOne(has, it, o) == has /\ it <= o.maxIterations

\* while (hasOverlap && iterations < maxIterations)
LoopContinues(has, it, o) == has /\ it < o.maxIterations

\* resolveCollisions up to its while loop
ResolveEnter ==
    /\ prog = "resolveCollisions"
    /\ pc = "enter"
    /\ result' = CopyNodes(nodesArg, Len(heap))
    /\ heap' = CopyHeap(heap, nodesArg, Len(heap))
    /\ hasOverlap' = TRUE
    /\ iterations' = 0
    /\ pc' = "loop"
    /\ UNCHANGED <<prog, treeVars, hierVars, scene, opts, nodesArg, newArg, rects, cur>>

\* one pass of the while loop of resolveCollisions
ResolvePass ==
    /\ prog = "resolveCollisions"
    /\ pc = "loop"
    /\ LoopContinues(hasOverlap, iterations, opts)
    /\ LET p == PassFrom(heap, result, opts, 1, 2, FALSE)
       IN  /\ heap' = p.heap
           /\ hasOverlap' = p.hasOverlap
    /\ iterations' = iterations + 1
    /\ UNCHANGED <<prog, pc, treeVars, hierVars, scene, opts, nodesArg, newArg, rects, result, cur>>

\* the while loop of resolveCollisions ends; return result
ResolveReturn ==
    /\ prog = "resolveCollisions"
    /\ pc = "loop"
    /\ ~LoopContinues(hasOverlap, iterations, opts)
    /\ pc' = "done"
    /\ UNCHANGED <<prog, treeVars, resolveVars, hierVars>>

\* resolveNewNodeCollisions up to its for loop, and the loop's first node if any
NewEnter ==
    /\ prog = "resolveNewNodeCollisions"
    /\ pc = "enter"
    /\ result' = CopyNodes(newArg, Len(heap))
    /\ heap' = CopyHeap(heap, newArg, Len(heap))
    /\ rects' = [j \in 1..Len(nodesArg) |-> GetNodeRect(heap, nodesArg[j])]
    /\ iterations' = 0
    /\ IF Len(newArg) > 0
       THEN cur' = 1 /\ hasOverlap' = TRUE /\ pc' = "loop"
       ELSE cur' = 0 /\ hasOverlap' = FALSE /\ pc' = "done"
    /\ UNCHANGED <<prog, treeVars, hierVars, scene, opts, nodesArg, newArg>>

\* one pass of the while loop for result[cur]
NewPass ==
    /\ prog = "resolveNewNodeCollisions"
    /\ pc = "loop"
    /\ LoopContinues(hasOverlap, iterations, opts)
    /\ LET p == NewNodePass(heap, result, cur, rects, nodesArg, opts)
       IN  /\ heap' = p.heap
           /\ hasOverlap' = p.hasOverlap
    /\ iterations' = iterations + 1
    /\ UNCHANGED <<prog, pc, treeVars, hierVars, scene, opts, nodesArg, newArg, rects, result, cur>>

\* the while loop for result[cur] ends: the next node of the for loop, or return
NewAdvance ==
    /\ prog = "resolveNewNodeCollisions"
    /\ pc = "loop"
    /\ ~LoopContinues(hasOverlap, iterations, opts)
    /\ IF cur < Len(result)
       THEN cur' = cur + 1 /\ hasOverlap' = TRUE /\ iterations' = 0 /\ pc' = "loop"
       ELSE pc' = "done" /\ UNCHANGED <<cur, hasOverlap, iterations>>
    /\ UNCHANGED <<prog, treeVars, hierVars, scene, opts, heap, nodesArg, newArg, rects, result>>

ResolveNext ==
    \/ ResolveEnter
    \/ ResolvePass
    \/ ResolveReturn
    \/ NewEnter
    \/ NewPass
    \/ NewAdvance

SpecResolve == (ResolveInit \/ NewInit) /\ [][ResolveNext]_vars

-----------------------------------------------------------------------------
(* handleAddDiscoveredContent (app/components/ConceptCanvas.tsx)           *)

\* nodes.find((n) => n.id === id): its index, 0 when there is none
FindIndex(nodes, id) ==
    IF \E j \in 1..Len(nodes) : nodes[j].id = id
    THEN CHOOSE j \in 1..Len(nodes) :
             nodes[j].id = id /\ \A i \in 1..(j - 1) : nodes[i].id # id
    ELSE 0

\* edges.filter((e) => e.source === id).map((e) => nodes.find(...)).filter(defined):
\* the indices in nodes of the children of id, in edge order
ChildIndices(nodes, edges, id) ==
    LET out == SelectSeq(edges, LAMBDA e : e.source = id /\ FindIndex(nodes, e.target) # 0)
    IN  [j \in 1..Len(out) |-> FindIndex(nodes, out[j].target)]

\* childXPositions.reduce((sum, x) => sum + x, 0), from index j on
RECURSIVE ChildCentersFrom(_, _, _, _)
ChildCentersFrom(h, nodes, children, j) ==
    IF j > Len(children) THEN Zero
    ELSE RAdd(CenterX(GetNodeRect(h, nodes[children[j]])),
              ChildCentersFrom(h, nodes, children, j + 1))

\* adjustParentPositions(nodes, edges): every node that has children among nodes
\* gets the x that puts its center on the mean of their centers
AdjustParentPositions(h, nodes, edges) ==
    LET adjustedNodes == CopyNodes(nodes, Len(h))
        h1 == CopyHeap(h, nodes, Len(h))
        children(j) == ChildIndices(nodes, edges, nodes[j].id)
        isParent(j) == FindIndex(nodes, nodes[j].id) = j /\ Len(children(j)) > 0
        parentX(j) == RSub(RDivInt(ChildCentersFrom(h, nodes, children(j), 1), Len(children(j))),
                           RDivInt(GetNodeRect(h1, adjustedNodes[j]).width, 2))
    IN  [result |-> adjustedNodes,
         heap |-> [r \in DOMAIN h1 |->
                      IF \E j \in 1..Len(nodes) : adjustedNodes[j].position = r /\ isParent(j)
                      THEN [h1[r] EXCEPT !.x = parentX(CHOOSE j \in 1..Len(nodes) :
                                                          adjustedNodes[j].position = r)]
                      ELSE h1[r]]]

\* HORIZONTAL_SPACING and VERTICAL_SPACING of handleAddDiscoveredContent
InsertSpacing == [H |-> 220, V |-> 220]

\* idealStartX for a parent at x with total children after the insertion
IdealStartX(x, total) == RSub(x, RDivInt(Num((total - 1) * InsertSpacing.H), 2))

\* existingChildren.forEach((child, index) => { child.position.x = idealX }):
\* the position objects of the nodes the caller holds are written
Redistribute(h, nodes, children, idealStartX) ==
    [r \in DOMAIN h |->
        IF \E j \in 1..Len(children) : nodes[children[j]].position = r
        THEN LET index == (CHOOSE j \in 1..Len(children) :
                               /\ nodes[children[j]].position = r
                               /\ \A i \in (j + 1)..Len(children) :
                                      nodes[children[i]].position # r) - 1
             IN  [h[r] EXCEPT !.x = RAdd(idealStartX, Num(index * InsertSpacing.H))]
        ELSE h[r]]

\* level1Nodes: count new nodes without a size, ids and position objects fresh
Level1Nodes(h, nodes, count) ==
    [j \in 1..count |->
        [id |-> Len(nodes) + j, position |-> Len(h) + j, width |-> Null, height |-> Null]]

\* the position objects of level1Nodes: a row that starts at startX, one level
\* below the parent
Level1Heap(h, count, startX, parentY) ==
    [r \in DOMAIN h \cup {Len(h) + j : j \in 1..count} |->
        IF r \in DOMAIN h THEN h[r]
        ELSE [x |-> RAdd(startX, Num((r - Len(h) - 1) * InsertSpacing.H)),
              y |-> RAdd(parentY, Num(InsertSpacing.V))]]

\* level1Edges
Level1Edges(parentNodeId, newNodes) ==
    [j \in 1..Len(newNodes) |-> [source |-> parentNodeId, target |-> newNodes[j].id]]

\* the canvas before an insertion: the parent (id 1), its children in one row
\* below it (the first with a measured width of 100 or unsized), two more nodes
\* further down that stand clear or overlap, and the edges parent -> child; the
\* call names the parent or an id the canvas does not hold, and brings one or two
\* level 1 concepts with new labels, and no level 2 or gap concepts
InsertScenes ==
    {[existing |-> <<[id |-> 1, x |-> px, y |-> 0, width |-> Null, height |-> Null]>>
                   \o [j \in 1..Len(cs) |->
                          [id |-> 1 + j, x |-> cs[j], y |-> 220,
                           width |-> IF j = 1 THEN w ELSE Null, height |-> Null]]
                   \o [j \in 1..2 |->
                          [id |-> 1 + Len(cs) + j, x |-> (j - 1) * gap, y |-> 660,
                           width |-> Null, height |-> Null]],
      incoming |-> count,
      edges |-> [j \in 1..Len(cs) |-> [source |-> 1, target |-> 1 + j]],
      parentNodeId |-> parent] :
        px \in {0, 50}, cs \in SeqsOver({-220, 0, 220}, 0, 2), w \in {Null, 100},
        gap \in {50, 400}, count \in 1..2, parent \in {1, 99}}

\* the options handleAddDiscoveredContent passes to the two resolvers
InsertNewNodeOptions ==
    NewNodeDefaults([maxIterations |-> 50, overlapThreshold |-> Undefined, margin |-> 30])
InsertCollisionOptions ==
    CollisionDefaults([maxIterations |-> 50, overlapThreshold |-> Dec(5, 10), margin |-> 30])

\* heap holds the position objects, nodesArg is nodesRef.current, newArg is
\* allNewNodes and then resolvedNewNodes, result is the array result of the
\* resolver running and in the end what the updater handed to setNodes returns
InsertInit ==
    /\ prog = "handleAddDiscoveredContent"
    /\ pc = "enter"
    /\ scene \in InsertScenes
    /\ opts = [maxIterations |-> 0, overlapThreshold |-> Zero, margin |-> Zero]
    /\ heap = [r \in 1..Len(scene.existing) |->
                  [x |-> Num(scene.existing[r].x), y |-> Num(scene.existing[r].y)]]
    /\ nodesArg = SceneNodes(scene.existing, 0)
    /\ newArg = <<>>
    /\ rects = <<>>
    /\ result = <<>>
    /\ cur = 0
    /\ iterations = 0
    /\ hasOverlap = FALSE
    /\ TreeIdle
    /\ HierIdle

\* handleAddDiscoveredContent up to allNewNodes: return when the parent is not
\* on the canvas, else spread the existing children and place the new nodes
InsertPlace ==
    /\ prog = "handleAddDiscoveredContent"
    /\ pc = "enter"
    /\ LET parentIndex == FindIndex(nodesArg, scene.parentNodeId)
       IN  IF parentIndex = 0
           THEN pc' = "done" /\ UNCHANGED <<heap, newArg>>
           ELSE LET parentPosition == heap[nodesArg[parentIndex].position]
                    existingChildren == ChildIndices(nodesArg, scene.edges, scene.parentNodeId)
                    totalChildrenCount == Len(existingChildren) + scene.incoming
                    idealStartX == IdealStartX(parentPosition.x, totalChildrenCount)
                    startX == RAdd(idealStartX, Num(Len(existingChildren) * InsertSpacing.H))
                    h1 == Redistribute(heap, nodesArg, existingChildren, idealStartX)
               IN  /\ newArg' = Level1Nodes(h1, nodesArg, scene.incoming)
                   /\ heap' = Level1Heap(h1, scene.incoming, startX, parentPosition.y)
                   /\ pc' = "resolveNew"
    /\ UNCHANGED <<prog, treeVars, hierVars, scene, opts, nodesArg, rects, result, cur,
                   iterations, hasOverlap>>

\* resolveNewNodeCollisions(existingNodes, allNewNodes, ...) up to its for loop
InsertNewEnter ==
    /\ prog = "handleAddDiscoveredContent"
    /\ pc = "resolveNew"
    /\ opts' = InsertNewNodeOptions
    /\ result' = CopyNodes(newArg, Len(heap))
    /\ heap' = CopyHeap(heap, newArg, Len(heap))
    /\ rects' = [j \in 1..Len(nodesArg) |-> GetNodeRect(heap, nodesArg[j])]
    /\ iterations' = 0
    /\ cur' = 1
    /\ hasOverlap' = TRUE
    /\ pc' = "newLoop"
    /\ UNCHANGED <<prog, treeVars, hierVars, scene, nodesArg, newArg>>

\* one pass of its while loop for result[cur]
InsertNewPass ==
    /\ prog = "handleAddDiscoveredContent"
    /\ pc = "newLoop"
    /\ LoopContinues(hasOverlap, iterations, opts)
    /\ LET p == NewNodePass(heap, result, cur, rects, nodesArg, opts)
       IN  /\ heap' = p.heap
           /\ hasOverlap' = p.hasOverlap
    /\ iterations' = iterations + 1
    /\ UNCHANGED <<prog, pc, treeVars, hierVars, scene, opts, nodesArg, newArg, rects, result, cur>>

\* the while loop for result[cur] ends: the next node of the for loop, or
\* resolvedNewNodes is returned
InsertNewAdvance ==
    /\ prog = "handleAddDiscoveredContent"
    /\ pc = "newLoop"
    /\ ~LoopContinues(hasOverlap, iterations, opts)
    /\ IF cur < Len(result)
       THEN /\ cur' = cur + 1
            /\ hasOverlap' = TRUE
            /\ iterations' = 0
            /\ UNCHANGED <<pc, newArg>>
       ELSE /\ newArg' = result
            /\ pc' = "setNodes"
            /\ UNCHANGED <<cur, hasOverlap, iterations>>
    /\ UNCHANGED <<prog, treeVars, hierVars, scene, opts, heap, nodesArg, rects, result>>

\* the updater handed to setNodes, called with the nodes of nodesRef.current (the
\* redistributed children already hold their new positions), up to
\* adjustParentPositions(allNodes, allEdges)
InsertAdjust ==
    /\ prog = "handleAddDiscoveredContent"
    /\ pc = "setNodes"
    /\ LET allNodes == nodesArg \o newArg
           allEdges == scene.edges \o Level1Edges(scene.parentNodeId, newArg)
           adjusted == AdjustParentPositions(heap, allNodes, allEdges)
       IN  /\ result' = adjusted.result
           /\ heap' = adjusted.heap
    /\ pc' = "resolveAll"
    /\ UNCHANGED <<prog, treeVars, hierVars, scene, opts, nodesArg, newArg, rects, cur,
                   iterations, hasOverlap>>

\* resolveCollisions(adjustedNodes, ...) up to its while loop
InsertCollisionEnter ==
    /\ prog = "handleAddDiscoveredContent"
    /\ pc = "resolveAll"
    /\ opts' = InsertCollisionOptions
    /\ result' = CopyNodes(result, Len(heap))
    /\ heap' = CopyHeap(heap, result, Len(heap))
    /\ hasOverlap' = TRUE
    /\ iterations' = 0
    /\ pc' = "allLoop"
    /\ UNCHANGED <<prog, treeVars, hierVars, scene, nodesArg, newArg, rects, cur>>

\* one pass of its while loop
InsertCollisionPass ==
    /\ prog = "handleAddDiscoveredContent"
    /\ pc = "allLoop"
    /\ LoopContinues(hasOverlap, iterations, opts)
    /\ LET p == PassFrom(heap, result, opts, 1, 2, FALSE)
       IN  /\ heap' = p.heap
           /\ hasOverlap' = p.hasOverlap
    /\ iterations' = iterations + 1
    /\ UNCHANGED <<prog, pc, treeVars, hierVars, scene, opts, nodesArg, newArg, rects, result, cur>>

\* its while loop ends: the updater returns adjustedNodes
InsertReturn ==
    /\ prog = "handleAddDiscoveredContent"
    /\ pc = "allLoop"
    /\ ~LoopContinues(hasOverlap, iterations, opts)
    /\ pc' = "done"
    /\ UNCHANGED <<prog, treeVars, resolveVars, hierVars>>

InsertNext ==
    \/ InsertPlace
    \/ InsertNewEnter
    \/ InsertNewPass
    \/ InsertNewAdvance
    \/ InsertAdjust
    \/ InsertCollisionEnter
    \/ InsertCollisionPass
    \/ InsertReturn

SpecInsert == InsertInit /\ [][InsertNext]_vars

-----------------------------------------------------------------------------
(* calculateHierarchicalLayout as a state machine                          *)

\* the ids of the nodes of a tree, in pre-order; the root may be called "root"
HierIds == <<"a", "b", "c", "d", "e", "f", "g", "h">>
NodeName(v, named) == IF v = 1 /\ named THEN "root" ELSE HierIds[v]

\* an id no node has
UnknownId == "zz"

\* the node array of the tree p: in pre-order or reversed, level the depth in
\* the tree or 1 everywhere
TreeNodes(p, named, flat, reversed) ==
    [j \in 1..Len(p) |->
        LET v == IF reversed THEN Len(p) + 1 - j ELSE j
        IN  [id |-> NodeName(v, named), level |-> IF flat THEN 1 ELSE Depth(p, v)]]

\* the edges parent -> child of the tree p for the children v..Len(p), but for
\* the child drop
RECURSIVE TreeEdgesFrom(_, _, _, _)
TreeEdgesFrom(p, named, drop, v) ==
    IF v > Len(p) THEN <<>>
    ELSE (IF v = drop THEN <<>>
          ELSE <<[source |-> NodeName(p[v], named), target |-> NodeName(v, named)]>>)
         \o TreeEdgesFrom(p, named, drop, v + 1)

\* the array s back to front
Reversed(s) == [j \in 1..Len(s) |-> s[Len(s) + 1 - j]]

\* the inputs that are trees: every tree of up to MaxHierNodes nodes, its node
\* array and its edge array in either order
TreeInputs ==
    {[nodes |-> TreeNodes(p, named, flat, reversed),
      edges |-> IF backwards THEN Reversed(TreeEdgesFrom(p, named, 0, 2))
                ELSE TreeEdgesFrom(p, named, 0, 2)] :
        p \in UNION {TreesOfSize(n) : n \in 1..MaxHierNodes},
        named \in BOOLEAN, flat \in BOOLEAN, reversed \in BOOLEAN, backwards \in BOOLEAN}

\* the ids an added edge may name, and the added edge: none, or <<source,
\* target, put before the others>>
GraphIds == {"root", UnknownId} \cup {HierIds[j] : j \in 1..MaxGraphNodes}
ExtraEdges == {<<>>} \cup (GraphIds \X GraphIds \X BOOLEAN)
GraphTrees == UNION {TreesOfSize(n) : n \in 1..MaxGraphNodes}

\* the edges of the tree p without the edge of the child drop and with extra
GraphEdges(p, named, drop, extra) ==
    IF extra = <<>> THEN TreeEdgesFrom(p, named, drop, 2)
    ELSE IF extra[3]
    THEN <<[source |-> extra[1], target |-> extra[2]]>> \o TreeEdgesFrom(p, named, drop, 2)
    ELSE TreeEdgesFrom(p, named, drop, 2) \o <<[source |-> extra[1], target |-> extra[2]]>>

\* the inputs that are not trees: a tree of up to MaxGraphNodes nodes with one
\* edge removed (a second component) and one edge put before or after the
\* others (a duplicate, a second parent, a self-loop, a cycle, an unknown id);
\* and no nodes at all
GraphInputs ==
    {[nodes |-> TreeNodes(g[1], g[2], g[3], g[4]),
      edges |-> GraphEdges(g[1], g[2], g[5], g[6])] :
        g \in {q \in GraphTrees \X BOOLEAN \X BOOLEAN \X BOOLEAN \X (0..MaxGraphNodes)
                        \X ExtraEdges :
                 /\ q[5] # 1 /\ q[5] <= Len(q[1])
                 /\ q[6] # <<>> =>
                        \A e \in {q[6][1], q[6][2]} :
                            \/ e = UnknownId
                            \/ \E v \in 1..Len(q[1]) : e = NodeName(v, q[2])}}
    \cup
    {[nodes |-> <<>>, edges |-> es] :
        es \in {<<>>, <<[source |-> UnknownId, target |-> UnknownId]>>}}

\* the two copies of the function in ConceptCanvas.tsx
FirstCopy == [H |-> 180, V |-> 180]
SecondCopy == [H |-> 160, V |-> 90]

HierInit ==
    /\ prog = "calculateHierarchicalLayout"
    /\ pc = "maps"
    /\ \E input \in TreeInputs \cup GraphInputs :
          /\ inputNodes = input.nodes
          /\ inputEdges = input.edges
    /\ spacing \in {FirstCopy, SecondCopy}
    /\ childrenMap = <<>>
    /\ parentMap = <<>>
    /\ rootNode = NoNode
    /\ subtreeWidths = <<>>
    /\ subtreeOrders = <<>>
    /\ nodePositions = <<>>
    /\ positionedNodes = <<>>
    /\ TreeIdle
    /\ ResolveIdle

\* the two forEach loops that fill childrenMap and parentMap
HierBuildMaps ==
    /\ prog = "calculateHierarchicalLayout"
    /\ pc = "maps"
    /\ childrenMap' = ChildrenMapFrom(inputEdges, 1, EmptyChildrenFrom(inputNodes, 1, <<>>))
    /\ parentMap' = ParentMapFrom(inputEdges, 1, <<>>)
    /\ pc' = "findRoot"
    /\ UNCHANGED <<prog, treeVars, resolveVars, inputNodes, inputEdges, spacing, rootNode,
                   subtreeWidths, subtreeOrders, nodePositions, positionedNodes>>

\* const rootNode = ...; if (!rootNode) return []
HierFindRoot ==
    /\ prog = "calculateHierarchicalLayout"
    /\ pc = "findRoot"
    /\ rootNode' = RootNode(inputNodes, parentMap)
    /\ pc' = IF RootNode(inputNodes, parentMap) = NoNode THEN "done" ELSE "calculateSubtree"
    /\ UNCHANGED <<prog, treeVars, resolveVars, inputNodes, inputEdges, spacing, childrenMap,
                   parentMap, subtreeWidths, subtreeOrders, nodePositions, positionedNodes>>

\* calculateSubtree(rootNode.id); a recursion without end throws a RangeError
HierCalculateSubtree ==
    /\ prog = "calculateHierarchicalLayout"
    /\ pc = "calculateSubtree"
    /\ LET r == CalculateSubtree(childrenMap, spacing.H, rootNode.id, {},
                                 [subtreeWidths |-> <<>>, subtreeOrders |-> <<>>,
                                  width |-> 0, overflow |-> FALSE])
       IN  IF r.overflow
           THEN /\ pc' = "threw"
                /\ UNCHANGED <<subtreeWidths, subtreeOrders>>
           ELSE /\ pc' = "positionNode"
                /\ subtreeWidths' = r.subtreeWidths
                /\ subtreeOrders' = r.subtreeOrders
    /\ UNCHANGED <<prog, treeVars, resolveVars, inputNodes, inputEdges, spacing, childrenMap,
                   parentMap, rootNode, nodePositions, positionedNodes>>

\* positionNode(rootNode.id, 0, ROOT_Y, 0)
HierPositionNode ==
    /\ prog = "calculateHierarchicalLayout"
    /\ pc = "positionNode"
    /\ nodePositions' = PositionNode(childrenMap, subtreeOrders, subtreeWidths, spacing,
                                     rootNode.id, 0, 0, <<>>)
    /\ pc' = "return"
    /\ UNCHANGED <<prog, treeVars, resolveVars, inputNodes, inputEdges, spacing, childrenMap,
                   parentMap, rootNode, subtreeWidths, subtreeOrders, positionedNodes>>

\* the forEach that fills positionedNodes; return positionedNodes
HierReturn ==
    /\ prog = "calculateHierarchicalLayout"
    /\ pc = "return"
    /\ positionedNodes' = PositionedFrom(inputNodes, nodePositions, 1)
    /\ pc' = "done"
    /\ UNCHANGED <<prog, treeVars, resolveVars, inputNodes, inputEdges, spacing, childrenMap,
                   parentMap, rootNode, subtreeWidths, subtreeOrders, nodePositions>>

HierNext ==
    \/ HierBuildMaps
    \/ HierFindRoot
    \/ HierCalculateSubtree
    \/ HierPositionNode
    \/ HierReturn

SpecHier == HierInit /\ [][HierNext]_vars

-----------------------------------------------------------------------------
(* computeTreeLayout: properties of the returned layout                    *)

\* JavaScript's ===, >= on numbers
REq(a, b) == ~IsNaN(a) /\ ~IsNaN(b) /\ a = b
RGe(a, b) == RLe(b, a)

TreeDone == prog = "computeTreeLayout" /\ pc = "done"

IsLeaf(p, v) == ChildSet(p, v) = {}

\* the number of edges between v and the root
EdgesToRoot(p, v) == Cardinality(AncestorsOrSelf(p, v)) - 1

SameDepth(p, u, v) == EdgesToRoot(p, u) = EdgesToRoot(p, v)

XDistance(u, v) == RAbs(RSub(lay.x[u], lay.x[v]))

\* u and v are on one level with no node of that level strictly between them
Adjacent(p, u, v) ==
    /\ u # v
    /\ SameDepth(p, u, v)
    /\ ~\E n \in Nodes(p) :
          /\ SameDepth(p, n, u)
          /\ \/ RLt(lay.x[u], lay.x[n]) /\ RLt(lay.x[n], lay.x[v])
             \/ RLt(lay.x[v], lay.x[n]) /\ RLt(lay.x[n], lay.x[u])

\* C1: in the returned layout any two distinct leaves of the same depth are at
\* least nodeWidth apart in x, so their rectangles do not overlap.
C1_LeavesDoNotOverlap ==
    TreeDone =>
        \A u, v \in Nodes(tree) :
            (u # v /\ IsLeaf(tree, u) /\ IsLeaf(tree, v) /\ SameDepth(tree, u, v))
                => RGe(XDistance(u, v), Num(cfg.nodeWidth))

\* C2: in the returned layout every node with children has
\* x = (min child x + max child x) / 2 = (first child x + last child x) / 2.
C2_ParentCentered ==
    TreeDone =>
        \A v \in Nodes(tree) :
            LET ch == Children(tree, v)
            IN  Len(ch) > 0 =>
                    /\ REq(lay.x[v], RDivInt(RAdd(lay.x[ch[1]], lay.x[ch[Len(ch)]]), 2))
                    /\ REq(lay.x[v],
                           RDivInt(RAdd(MinOver(lay.x[ch[1]], lay.x, ch, 1),
                                        MaxOver(lay.x[ch[1]], lay.x, ch, 1)), 2))

\* C6: in the returned layout every node's y is its depth below the root times
\* (nodeHeight + levelGap), so nodes of one depth share their y.
C6_YIsDepthTimesLevelHeight ==
    TreeDone =>
        /\ \A v \in Nodes(tree) :
               /\ lay.level[v] = EdgesToRoot(tree, v)
               /\ lay.y[v] = EdgesToRoot(tree, v) * (cfg.nodeHeight + cfg.levelGap)
        /\ \A u, v \in Nodes(tree) : SameDepth(tree, u, v) => lay.y[u] = lay.y[v]

\* a returned layout with nodes on three levels, the deepest below y = 0
C6_Witness ==
    /\ TreeDone
    /\ \E u, v \in Nodes(tree) :
          /\ u # v
          /\ EdgesToRoot(tree, u) = 2
          /\ EdgesToRoot(tree, v) = 2
          /\ tree[u] # tree[v]
          /\ lay.y[u] = 2 * (cfg.nodeHeight + cfg.levelGap)

\* C7: in the returned layout the midpoint of the root's extent is at 0, and a
\* single-node tree gives one node at (0, 0).
C7_RootExtentCentered ==
    TreeDone =>
        /\ REq(RAdd(lay.leftExtent[1], lay.rightExtent[1]), Zero)
        /\ Len(tree) = 1 => (REq(lay.x[1], Zero) /\ lay.y[1] = 0)

\* C8: in the returned layout two horizontally adjacent nodes of one depth with
\* different parents are at least 2 * (nodeWidth + siblingGap) apart.
C8_CousinsTwoUnitsApart ==
    TreeDone =>
        \A u, v \in Nodes(tree) :
            (Adjacent(tree, u, v) /\ tree[u] # tree[v])
                => RGe(XDistance(u, v), Num(2 * (cfg.nodeWidth + cfg.siblingGap)))

\* C9: in the returned layout the children of a parent keep their input order
\* and consecutive siblings are at least nodeWidth + siblingGap apart.
C9_SiblingsOneUnitApart ==
    TreeDone =>
        \A v \in Nodes(tree) :
            LET ch == Children(tree, v)
            IN  \A j \in 1..(Len(ch) - 1) :
                    RGe(RSub(lay.x[ch[j + 1]], lay.x[ch[j]]),
                        Num(cfg.nodeWidth + cfg.siblingGap))

\* the calls of moveSubtree the next callback of rtEachAfter makes
NextMoveCalls ==
    IF prog = "computeTreeLayout" /\ pc = "firstWalk"
    THEN FirstWalk(tree, rt, PostOrder(tree, 1)[k + 1]).calls
    ELSE <<>>

\* wm is a left sibling of wp
LeftSibling(p, wm, wp) ==
    /\ wm # 0
    /\ ParentOf(p, wm) = ParentOf(p, wp)
    /\ IndexOf(p, wm) < IndexOf(p, wp)

\* C26: moveSubtree(wm, wp, shift) is only called with wm a left sibling of wp,
\* so shift is divided by a positive number, and every x, leftExtent and
\* rightExtent returned is a finite number.
C26_MoveSubtreeBetweenSiblings ==
    /\ \A j \in 1..Len(NextMoveCalls) :
           /\ LeftSibling(tree, NextMoveCalls[j][1], NextMoveCalls[j][2])
           /\ IndexOf(tree, NextMoveCalls[j][2]) - IndexOf(tree, NextMoveCalls[j][1]) > 0
    /\ TreeDone =>
           \A v \in Nodes(tree) :
               /\ IsFinite(lay.x[v])
               /\ IsFinite(lay.leftExtent[v])
               /\ IsFinite(lay.rightExtent[v])

\* every coordinate of the returned layout is a finite number
FiniteLayout ==
    \A v \in Nodes(tree) :
        /\ IsFinite(lay.x[v])
        /\ IsFinite(lay.leftExtent[v])
        /\ IsFinite(lay.rightExtent[v])

\* the nodes of the tree, as a sequence
AllNodes(p) == [j \in 1..Len(p) |-> j]

\* the midpoint, in pixels, of the boxes drawn at the coordinates of the second walk
DrawingMidpoint ==
    LET lo == MinOver(rt.x[1], rt.x, AllNodes(tree), 1)
        hi == MaxOver(rt.x[1], rt.x, AllNodes(tree), 1)
    IN  RDivInt(RMulInt(RAdd(lo, hi), GetScale(cfg)), 2)

SubtreeNodes(p, v) == SortedSeq({u \in Nodes(p) : v \in AncestorsOrSelf(p, u)})

\* C24: in the returned layout, after the centering shift, every node has
\* leftExtent = the least x - nodeWidth / 2 and rightExtent = the greatest
\* x + nodeWidth / 2 over the node and its descendants, and
\* width = rightExtent - leftExtent.
C24_ExtentsSpanSubtree ==
    TreeDone =>
        \A v \in Nodes(tree) :
            LET half == Norm(cfg.nodeWidth, 2)
                sub == SubtreeNodes(tree, v)
                lefts == [u \in Nodes(tree) |-> RSub(lay.x[u], half)]
                rights == [u \in Nodes(tree) |-> RAdd(lay.x[u], half)]
            IN  /\ REq(lay.leftExtent[v], MinOver(lefts[v], lefts, sub, 1))
                /\ REq(lay.rightExtent[v], MaxOver(rights[v], rights, sub, 1))
                /\ REq(lay.width[v], RSub(lay.rightExtent[v], lay.leftExtent[v]))

\* C24 on the layouts of finite numbers
ExtentsSpanSubtreeWhenFinite == FiniteLayout => C24_ExtentsSpanSubtree

\* the calls of moveSubtree made by the callbacks on order[j..upto], in order
RECURSIVE MoveCallsFrom(_, _, _, _, _)
MoveCallsFrom(p, r, order, j, upto) ==
    IF j > upto THEN <<>>
    ELSE LET res == FirstWalk(p, r, order[j])
         IN  res.calls \o MoveCallsFrom(p, res.rt, order, j + 1, upto)

\* the calls of moveSubtree made so far
MoveCalls == MoveCallsFrom(tree, BuildRT(tree), PostOrder(tree, 1), 1, k)

\* the child of par whose subtree holds v
ChildAbove(p, par, v) == CHOOSE c \in ChildSet(p, par) : c \in AncestorsOrSelf(p, v)

\* what the shifts of calls[j..] give the sibling of index kk: for a call that
\* shifted the sibling of index jj by S against the subtree of the sibling of
\* index ii, S * (kk - ii) / (jj - ii) when ii < kk < jj, and nothing otherwise
RECURSIVE ShareOfShifts(_, _, _, _, _)
ShareOfShifts(p, par, calls, j, kk) ==
    IF j > Len(calls) THEN Zero
    ELSE LET call == calls[j]
             ii == IndexOf(p, ChildAbove(p, par, call[4]))
             jj == IndexOf(p, call[2])
             rest == ShareOfShifts(p, par, calls, j + 1, kk)
         IN  IF ParentOf(p, call[2]) = par /\ ii < kk /\ kk < jj
             THEN RAdd(RDivInt(RMulInt(call[3], kk - ii), jj - ii), rest)
             ELSE rest

\* the node of the next callback has children, and they were shifted apart
ShiftsPending ==
    /\ prog = "computeTreeLayout"
    /\ pc = "firstWalk"
    /\ \E j \in 1..Len(MoveCalls) :
           ParentOf(tree, MoveCalls[j][2]) = PostOrder(tree, 1)[k + 1]

\* C21: when apportion shifted a sibling v of index j right by S because of the
\* subtree of an earlier sibling u of index i, executeShifts on their parent
\* moves every sibling of index k between them right by S * (k - i) / (j - i),
\* and moves neither u nor a sibling left of u.
C21_ShiftSpreadOverSiblingsBetween ==
    ShiftsPending =>
        LET par == PostOrder(tree, 1)[k + 1]
            after == ExecuteShifts(tree, rt, par)
        IN  \A c \in ChildSet(tree, par) :
                REq(RSub(after.z[c], rt.z[c]),
                    ShareOfShifts(tree, par, MoveCalls, 1, IndexOf(tree, c)))

-----------------------------------------------------------------------------
(* The resolver: properties                                                *)

ResolveDone == prog = "resolveCollisions" /\ pc = "done"
NewDone == prog = "resolveNewNodeCollisions" /\ pc = "done"

\* the position a node had when the caller passed it
ScenePosition(n) == [x |-> Num(n.x), y |-> Num(n.y)]

\* the rectangle of a node as the caller passed it
SceneRect(n) ==
    [x |-> Num(n.x), y |-> Num(n.y),
     width |-> IF n.width # Null THEN Num(n.width) ELSE Num(180),
     height |-> IF n.height # Null THEN Num(n.height) ELSE Num(80)]

\* the caller's array that result copies, and the scene nodes behind it
CopiedArg == IF prog = "resolveCollisions" THEN nodesArg ELSE newArg
CopiedScene == IF prog = "resolveCollisions" THEN scene.existing ELSE scene.incoming

\* some node of result is no longer where the caller put it
SomeResultMoved ==
    \E j \in 1..Len(result) : heap[result[j].position] # ScenePosition(CopiedScene[j])

\* C3: resolveNewNodeCollisions never changes the position of a node of
\* existingNodes, and its result holds the nodes of newNodes only.
C3_ExistingNeverMoved ==
    prog = "resolveNewNodeCollisions" =>
        /\ \A j \in 1..Len(nodesArg) :
               heap[nodesArg[j].position] = ScenePosition(scene.existing[j])
        /\ pc # "enter" =>
               /\ Len(result) = Len(scene.incoming)
               /\ \A j \in 1..Len(result) : result[j].id = scene.incoming[j].id

\* resolveNewNodeCollisions returned after pushing a new node away from an obstacle
C3_Witness ==
    /\ NewDone
    /\ Len(nodesArg) > 0
    /\ \E j \in 1..Len(result) :
          /\ RectsOverlap(SceneRect(scene.incoming[j]), SceneRect(scene.existing[1]), opts.margin)
          /\ heap[result[j].position] # ScenePosition(scene.incoming[j])

\* C4: two overlapping rectangles of width 100 resolved with margin 20 and the
\* largest iteration budget are returned no longer overlapping, that is at least
\* 20 apart on the axis they were pushed along.
C4_TwoRectanglesSeparated ==
    (/\ ResolveDone
     /\ Len(scene.existing) = 2
     /\ \A j \in 1..2 : scene.existing[j].width = 100
     /\ opts.margin = Num(20)
     /\ opts.maxIterations = MaxIterations
     /\ RectsOverlap(SceneRect(scene.existing[1]), SceneRect(scene.existing[2]), opts.margin))
        => ~RectsOverlap(GetNodeRect(heap, result[1]), GetNodeRect(heap, result[2]), opts.margin)

\* With the default overlapThreshold a pass moves each of two overlapping
\* rectangles by at most 0.12 of their overlap: the overlap shrinks and never
\* vanishes, whatever the number of passes.
C4_OverlapNeverCleared ==
    (/\ prog = "resolveCollisions"
     /\ pc # "enter"
     /\ Len(scene.existing) = 2
     /\ opts.overlapThreshold = Dec(1, 10)
     /\ RectsOverlap(SceneRect(scene.existing[1]), SceneRect(scene.existing[2]), opts.margin))
        => RectsOverlap(GetNodeRect(heap, result[1]), GetNodeRect(heap, result[2]), opts.margin)

\* an upper bound of the number of steps a call still takes before it returns:
\* the passes left to the current while loop, its exit, and a whole loop for
\* every node the for loop has not reached
StepsLeft ==
    IF pc = "done" THEN 0
    ELSE IF prog = "resolveCollisions"
    THEN IF pc = "enter" THEN opts.maxIterations + 2
         ELSE (opts.maxIterations - iterations) + 1
    ELSE IF pc = "enter" THEN Len(newArg) * (opts.maxIterations + 2) + 1
         ELSE (Len(result) - cur) * (opts.maxIterations + 2)
              + (opts.maxIterations - iterations) + 1

\* C5: neither resolver runs more than maxIterations passes of its while loop
\* (per new node for resolveNewNodeCollisions), and both return: every step
\* of a call uses up one of a bounded number of steps left.
C5_BoundedPassesAndReturn ==
    /\ [](iterations <= opts.maxIterations /\ StepsLeft >= 0)
    /\ [][StepsLeft' < StepsLeft]_vars

\* a new node squeezed between two obstacles used its whole budget and
\* resolveNewNodeCollisions returned with it still overlapping
C5_Witness ==
    /\ NewDone
    /\ Len(nodesArg) = 2
    /\ iterations = opts.maxIterations
    /\ hasOverlap
    /\ \E j \in 1..Len(result) :
          \A e \in 1..2 : RectsOverlap(GetNodeRect(heap, result[j]), rects[e], opts.margin)

\* C10: the returned array has the length, order, ids and sizes of the copied
\* argument (nodes, or newNodes), and the argument's position objects keep
\* their values.
C10_SameShapeInputUntouched ==
    /\ prog \in {"resolveCollisions", "resolveNewNodeCollisions"} =>
           \A j \in 1..Len(CopiedArg) :
               heap[CopiedArg[j].position] = ScenePosition(CopiedScene[j])
    /\ (ResolveDone \/ NewDone) =>
           /\ Len(result) = Len(CopiedArg)
           /\ \A j \in 1..Len(result) :
                  /\ result[j].id = CopiedArg[j].id
                  /\ result[j].width = CopiedArg[j].width
                  /\ result[j].height = CopiedArg[j].height

\* resolveCollisions returned three nodes, one of them moved
C10_Witness ==
    /\ ResolveDone
    /\ Len(result) = 3
    /\ SomeResultMoved

\* the centers of the rectangles a and b coincide
SameCenter(a, b) == CenterX(a) = CenterX(b) /\ CenterY(a) = CenterY(b)

\* the result's position j after the calls' copy
ResultPosition(j) == heap[result[j].position]

\* what resolveCollisions moves each of two rectangles with one center by
CoincidentMove(a, b) ==
    LET ov == GetOverlapAmount(a, b, opts.margin)
        pushX == IF RLt(ov.y, ov.x) THEN RMul(ov.x, Dec(8, 10)) ELSE RMul(ov.x, Dec(6, 10))
    IN  RMul(RMul(pushX, opts.overlapThreshold), Dec(15, 10))

\* what resolveNewNodeCollisions moves a new node by when its center is that
\* of an obstacle (factors 9/10, 6/10, 13/10) or of another new node (5/10, 3/10, 12/10)
CoincidentNewMove(a, b, wide, narrow, stretch) ==
    LET ov == GetOverlapAmount(a, b, opts.margin)
        pushAmount == IF RLt(ov.y, ov.x) THEN RMul(ov.x, wide)
                      ELSE RMul(RMax(ov.x, ov.y), narrow)
    IN  RMul(pushAmount, stretch)

C19_CleanPassMeansNoOverlap ==
    (ResolveDone /\ ~hasOverlap) =>
        \A i, j \in 1..Len(result) :
            i < j => ~RectsOverlap(GetNodeRect(heap, result[i]), GetNodeRect(heap, result[j]),
                                   opts.margin)

\* resolveCollisions pushed two overlapping nodes apart, ran a pass that found
\* nothing and returned
C19_Witness ==
    /\ ResolveDone
    /\ ~hasOverlap
    /\ iterations > 1
    /\ RectsOverlap(SceneRect(scene.existing[1]), SceneRect(scene.existing[2]), opts.margin)
    /\ SomeResultMoved

\* the while loop of resolveNewNodeCollisions is about to run a pass for result[cur]
NewPassPending ==
    /\ prog = "resolveNewNodeCollisions"
    /\ pc = "loop"
    /\ LoopContinues(hasOverlap, iterations, opts)

\* C23: a pass of resolveNewNodeCollisions pushes the new node away from
\* existing nodes and from the new nodes before it only: it leaves the node
\* where a pass without the new nodes after it would, so its returned position
\* does not depend on the new nodes after it.
C23_LaterNewNodesIgnored ==
    NewPassPending =>
        NewNodePass(heap, result, cur, rects, nodesArg, opts).heap[result[cur].position]
            = NewNodePass(heap, SubSeq(result, 1, cur), cur, rects, nodesArg,
                          opts).heap[result[cur].position]

\* no two rectangles of ns overlap with the margin, as the caller passed them
NoneOverlap(ns) ==
    \A i, j \in 1..Len(ns) :
        i < j => ~RectsOverlap(SceneRect(ns[i]), SceneRect(ns[j]), opts.margin)

\* the caller's nodes are free of conflicts: for resolveCollisions no two nodes
\* overlap, for resolveNewNodeCollisions no new node overlaps any other node
ConflictFree ==
    IF prog = "resolveCollisions" THEN NoneOverlap(scene.existing)
    ELSE /\ NoneOverlap(scene.incoming)
         /\ \A i \in 1..Len(scene.incoming), j \in 1..Len(scene.existing) :
                ~RectsOverlap(SceneRect(scene.incoming[i]), SceneRect(scene.existing[j]),
                              opts.margin)

\* C27: resolveCollisions and resolveNewNodeCollisions return a conflict-free
\* input at its positions; and a further pass of resolveCollisions over a result
\* returned free of overlaps moves nothing and finds no overlap, so a second
\* call returns it unchanged.
C27_ConflictFreeUnchanged ==
    /\ ((ResolveDone \/ NewDone) /\ ConflictFree) =>
           \A j \in 1..Len(result) : ResultPosition(j) = ScenePosition(CopiedScene[j])
    /\ (ResolveDone /\ ~hasOverlap) =>
           PassFrom(heap, result, opts, 1, 2, FALSE) = [heap |-> heap, hasOverlap |-> FALSE]

\* resolveCollisions returned two nodes that were free of conflicts
C27_Witness ==
    /\ ResolveDone
    /\ Len(scene.existing) = 2
    /\ ConflictFree
    /\ iterations = 1
    /\ ~SomeResultMoved

\* resolveNewNodeCollisions returned two new nodes that were in nobody's way
C27_WitnessNew ==
    /\ NewDone
    /\ Len(scene.existing) > 0
    /\ Len(scene.incoming) = 2
    /\ ConflictFree

\* the sum of f[1..j]
RECURSIVE RSum(_, _)
RSum(f, j) == IF j = 0 THEN Zero ELSE RAdd(f[j], RSum(f, j - 1))

\* C28: in resolveCollisions every push moves two nodes by opposite
\* displacements: after any number of passes, and in the returned array, the
\* sum of the nodes' position.x and the sum of their position.y are those of the
\* input.
C28_PositionSumsConserved ==
    (prog = "resolveCollisions" /\ pc # "enter") =>
        LET n == Len(result)
        IN  /\ RSum([j \in 1..n |-> ResultPosition(j).x], n)
                 = RSum([j \in 1..n |-> ScenePosition(scene.existing[j]).x], n)
            /\ RSum([j \in 1..n |-> ResultPosition(j).y], n)
                 = RSum([j \in 1..n |-> ScenePosition(scene.existing[j]).y], n)

\* resolveCollisions returned after its last allowed pass, nodes moved and
\* still overlapping
C28_Witness ==
    /\ ResolveDone
    /\ iterations = MaxIterations
    /\ hasOverlap
    /\ SomeResultMoved

-----------------------------------------------------------------------------
(* calculateHierarchicalLayout: properties                                 *)

HierDone == prog = "calculateHierarchicalLayout" /\ pc = "done"

\* the ids of the input nodes, and of the nodes returned
InputIds == {inputNodes[j].id : j \in 1..Len(inputNodes)}
PositionedIds == {positionedNodes[j].id : j \in 1..Len(positionedNodes)}

\* the ids that are targets of an edge from id, in edge order
EdgeTargets(id) ==
    LET from == SelectSeq(inputEdges, LAMBDA e : e.source = id)
    IN  [j \in 1..Len(from) |-> from[j].target]

\* the input is a tree that was laid out whole: edges join input nodes, no node
\* is the target of two edges, and every node was returned
InputIsTree ==
    /\ Len(inputNodes) > 0
    /\ \A j \in 1..Len(inputEdges) :
           /\ inputEdges[j].source \in InputIds
           /\ inputEdges[j].target \in InputIds
           /\ \A i \in 1..Len(inputEdges) :
                  inputEdges[i].target = inputEdges[j].target => i = j
    /\ PositionedIds = InputIds

\* the returned x and y of the node id
PositionOf(id) == (CHOOSE n \in {positionedNodes[j] : j \in 1..Len(positionedNodes)} : n.id = id).position

\* the smallest and the largest returned x among the ids of the sequence ids
LeftmostX(ids) ==
    CHOOSE x \in {PositionOf(ids[j]).x : j \in 1..Len(ids)} :
        \A j \in 1..Len(ids) : x <= PositionOf(ids[j]).x
RightmostX(ids) ==
    CHOOSE x \in {PositionOf(ids[j]).x : j \in 1..Len(ids)} :
        \A j \in 1..Len(ids) : x >= PositionOf(ids[j]).x

\* C12: in the returned layout of a tree every node with children has
\* x = (leftmost child x + rightmost child x) / 2.
C12_ParentOverDirectChildren ==
    (HierDone /\ InputIsTree) =>
        \A id \in PositionedIds :
            Len(EdgeTargets(id)) > 0 =>
                2 * PositionOf(id).x
                    = LeftmostX(EdgeTargets(id)) + RightmostX(EdgeTargets(id))

\* the indices of the edges whose target is id
EdgesInto(id) == {j \in 1..Len(inputEdges) : inputEdges[j].target = id}

\* the source of the first edge whose target is id
FirstSourceOf(id) ==
    inputEdges[CHOOSE j \in EdgesInto(id) : \A i \in EdgesInto(id) : j <= i].source

\* how often id occurs in the sequence ids
Occurrences(ids, id) == Cardinality({j \in 1..Len(ids) : ids[j] = id})

\* C13: a returned node that is the target of more than one edge is laid out as
\* a child of the source of the first of these edges only: it is once in that
\* node's child list, in no other child list, and one level below that node.
C13_FirstEdgeWins ==
    HierDone =>
        \A id \in PositionedIds :
            Cardinality(EdgesInto(id)) > 1 =>
                /\ \A parent \in DOMAIN subtreeOrders :
                       Occurrences(subtreeOrders[parent], id)
                           = IF parent = FirstSourceOf(id) THEN 1 ELSE 0
                /\ FirstSourceOf(id) \in PositionedIds =>
                       PositionOf(id).y = PositionOf(FirstSourceOf(id)).y + spacing.V

\* the indices of the input nodes flagged as root, and of those no edge points to
FlaggedRoots == {j \in 1..Len(inputNodes) : inputNodes[j].id = "root" \/ inputNodes[j].level = 0}
Parentless == {j \in 1..Len(inputNodes) : EdgesInto(inputNodes[j].id) = {}}

\* the first input node among the indices S
FirstOf(S) == inputNodes[CHOOSE j \in S : \A i \in S : j <= i]

\* C14: the root is resolved by priority: the first node flagged as root (id
\* "root" or level 0) wherever it is in the array; if none is flagged, the first
\* node without an incoming edge; if there is none, the first array entry.
C14_RootByPriority ==
    (/\ prog = "calculateHierarchicalLayout"
     /\ pc \notin {"maps", "findRoot"}
     /\ Len(inputNodes) > 0)
        => rootNode = IF FlaggedRoots # {} THEN FirstOf(FlaggedRoots)
                      ELSE IF Parentless # {} THEN FirstOf(Parentless)
                      ELSE inputNodes[1]


\* the ids reached from the ids S along the edges
RECURSIVE ReachFrom(_)
ReachFrom(S) ==
    LET T == S \cup {inputEdges[j].target : j \in {i \in 1..Len(inputEdges) : inputEdges[i].source \in S}}
    IN  IF T = S THEN S ELSE ReachFrom(T)

\* the ids reachable from the resolved root
Reachable == ReachFrom({rootNode.id})

\* C15: the array returned holds exactly the input nodes reachable from the
\* resolved root, each once and in the order of the input array; the nodes of
\* other components are left out.
C15_ReachableNodesInInputOrder ==
    HierDone =>
        LET kept == SelectSeq(inputNodes, LAMBDA n : n.id \in Reachable)
        IN  /\ Len(positionedNodes) = Len(kept)
            /\ \A j \in 1..Len(kept) :
                   /\ positionedNodes[j].id = kept[j].id
                   /\ positionedNodes[j].level = kept[j].level
                   /\ \A i \in 1..Len(kept) : positionedNodes[i].id = positionedNodes[j].id => i = j

\* a layout was returned that left out a node the root does not reach and kept
\* two nodes, the second of which stands after the node left out
C15_Witness ==
    /\ HierDone
    /\ Len(positionedNodes) >= 2
    /\ \E j \in 1..Len(inputNodes) :
           /\ inputNodes[j].id \notin PositionedIds
           /\ \E i \in 1..Len(inputNodes) : i > j /\ inputNodes[i].id \in PositionedIds


\* C16: calculateHierarchicalLayout returns for every input: it never throws
\* and never recurs without end, with an empty node array, duplicate edges,
\* edges naming unknown ids, nodes with several parents, and a self-loop or a
\* cycle reachable from the root.
C16_AlwaysReturns ==
    prog = "calculateHierarchicalLayout" => pc # "threw"


\* the ids at the end of a path of d edges that starts at the resolved root
RECURSIVE StepsFromRoot(_)
StepsFromRoot(d) ==
    IF d = 0 THEN {rootNode.id}
    ELSE {inputEdges[j].target :
              j \in {i \in 1..Len(inputEdges) : inputEdges[i].source \in StepsFromRoot(d - 1)}}

\* the numbers of edges on the paths from the resolved root to id
Depths(id) == {d \in 0..Len(inputEdges) : id \in StepsFromRoot(d)}

\* C17: every node returned has y = depth * VERTICAL_SPACING, where depth is the
\* number of edges on a path from the resolved root to it (the only such path
\* in a tree); the root has y = 0 and the level field plays no part.
C17_YIsDepthTimesVerticalSpacing ==
    HierDone =>
        /\ \A j \in 1..Len(positionedNodes) :
               \E d \in Depths(positionedNodes[j].id) :
                   positionedNodes[j].position.y = d * spacing.V
        /\ Len(positionedNodes) > 0 => PositionOf(rootNode.id).y = 0

\* a tree was laid out whole, and a node two edges below the root has a level
\* field that is not its depth
C17_Witness ==
    /\ HierDone
    /\ InputIsTree
    /\ \E j \in 1..Len(positionedNodes) :
           /\ Depths(positionedNodes[j].id) = {2}
           /\ positionedNodes[j].level # 2
           /\ positionedNodes[j].position.y = 2 * spacing.V


\* every child of id is a leaf, an input node and the target of one edge only
AllChildrenLeaves(id) ==
    /\ Len(EdgeTargets(id)) > 0
    /\ \A j \in 1..Len(EdgeTargets(id)) :
           /\ EdgeTargets(id)[j] \in InputIds
           /\ Len(EdgeTargets(EdgeTargets(id)[j])) = 0
           /\ Cardinality(EdgesInto(EdgeTargets(id)[j])) = 1

\* C18: when all children of a returned node are leaves they stand left to right
\* in the order of their edges, each 2 * HORIZONTAL_SPACING right of the one
\* before, and the parent's x is (first child x + last child x) / 2.
C18_LeafChildrenInEdgeOrder ==
    HierDone =>
        \A id \in PositionedIds :
            AllChildrenLeaves(id) =>
                LET children == EdgeTargets(id)
                IN  /\ \A j \in 1..(Len(children) - 1) :
                           PositionOf(children[j + 1]).x
                               = PositionOf(children[j]).x + 2 * spacing.H
                    /\ 2 * PositionOf(id).x
                           = PositionOf(children[1]).x + PositionOf(children[Len(children)]).x

\* a node with three leaf children was laid out
C18_Witness ==
    /\ HierDone
    /\ \E id \in PositionedIds :
           /\ AllChildrenLeaves(id)
           /\ Len(EdgeTargets(id)) >= 3
           /\ PositionOf(EdgeTargets(id)[1]).x < PositionOf(EdgeTargets(id)[2]).x
           /\ PositionOf(EdgeTargets(id)[2]).x < PositionOf(EdgeTargets(id)[3]).x


\* the barycenter <<sum, count>> of the child of index i (from 1) of the node id
ChildBarycenter(id, i) ==
    Barycenter(childrenMap, subtreeWidths, spacing.H, childrenMap[id][i], i - 1)

\* the barycenter b is less than, or equal to, the barycenter c
MeanLess(b, c) == b[1] * c[2] < c[1] * b[2]
MeanEqual(b, c) == b[1] * c[2] = c[1] * b[2]

\* the place from the left of the child of index i of the node id: one more
\* than the number of children of smaller barycenter, or of the same
\* barycenter and smaller index
PlaceOfChild(id, i) ==
    1 + Cardinality({j \in 1..Len(childrenMap[id]) :
                        \/ MeanLess(ChildBarycenter(id, j), ChildBarycenter(id, i))
                        \/ /\ MeanEqual(ChildBarycenter(id, j), ChildBarycenter(id, i))
                           /\ j < i})

\* the nodes whose children were ordered
OrderedParents == {id \in DOMAIN subtreeOrders : Len(subtreeOrders[id]) > 0}

\* C22: the children of every node are ordered by ascending barycenter (the
\* mean offset of the slot centers of a child's children, or the child's index
\* when it has none), children of equal barycenter in their original order;
\* and in the layout of a tree they stand left to right in that order.
C22_ChildrenByAscendingBarycenter ==
    HierDone =>
        /\ \A id \in OrderedParents :
               /\ Len(subtreeOrders[id]) = Len(childrenMap[id])
               /\ \A i \in 1..Len(childrenMap[id]) :
                      subtreeOrders[id][PlaceOfChild(id, i)] = childrenMap[id][i]
        /\ InputIsTree =>
               \A id \in OrderedParents :
                   \A j \in 1..(Len(subtreeOrders[id]) - 1) :
                       PositionOf(subtreeOrders[id][j]).x < PositionOf(subtreeOrders[id][j + 1]).x

\* a tree was laid out in which a child stands left of a sibling that came
\* before it in the input, its barycenter being the smaller one
C22_Witness ==
    /\ HierDone
    /\ InputIsTree
    /\ \E id \in OrderedParents :
           \E i, j \in 1..Len(childrenMap[id]) :
               /\ i < j
               /\ MeanLess(ChildBarycenter(id, j), ChildBarycenter(id, i))
               /\ PositionOf(childrenMap[id][j]).x < PositionOf(childrenMap[id][i]).x

\* a tree was laid out in which two children of one barycenter, each with a
\* child, kept their order
C22_WitnessOfTie ==
    /\ HierDone
    /\ InputIsTree
    /\ \E id \in OrderedParents :
           \E i, j \in 1..Len(childrenMap[id]) :
               /\ i < j
               /\ Len(Lookup(childrenMap, childrenMap[id][i], <<>>)) > 0
               /\ MeanEqual(ChildBarycenter(id, i), ChildBarycenter(id, j))
               /\ PositionOf(childrenMap[id][i]).x < PositionOf(childrenMap[id][j]).x

\* the child of index i of the node id has no children
ChildlessChild(id, i) == Len(Lookup(childrenMap, childrenMap[id][i], <<>>)) = 0

\* C30: among the children of one parent (fewer than HORIZONTAL_SPACING / 2 of
\* them) a childless child has its index as barycenter, a child with children
\* a barycenter of at least HORIZONTAL_SPACING / 2, and in the layout of a tree
\* every childless child stands left of every child with children, whatever
\* their order in the input.
C30_ChildlessChildrenFirst ==
    HierDone =>
        \A id \in OrderedParents :
            2 * Len(childrenMap[id]) < spacing.H =>
                \A i, j \in 1..Len(childrenMap[id]) :
                    (ChildlessChild(id, i) /\ ~ChildlessChild(id, j)) =>
                        /\ ChildBarycenter(id, i) = <<i - 1, 1>>
                        /\ 2 * ChildBarycenter(id, j)[1] >= spacing.H * ChildBarycenter(id, j)[2]
                        /\ PlaceOfChild(id, i) < PlaceOfChild(id, j)
                        /\ InputIsTree =>
                               PositionOf(childrenMap[id][i]).x < PositionOf(childrenMap[id][j]).x

\* a tree was laid out in which a childless child stands left of a sibling with
\* children that came before it in the input
C30_Witness ==
    /\ HierDone
    /\ InputIsTree
    /\ \E id \in OrderedParents :
           \E i, j \in 1..Len(childrenMap[id]) :
               /\ j < i
               /\ ChildlessChild(id, i)
               /\ ~ChildlessChild(id, j)
               /\ PositionOf(childrenMap[id][i]).x < PositionOf(childrenMap[id][j]).x

\* the number of edges from the root of a tree down to id
RECURSIVE EdgesBelowRoot(_)
EdgesBelowRoot(id) == IF id = rootNode.id THEN 0 ELSE 1 + EdgesBelowRoot(parentMap[id])

\* the distance in x of the returned nodes a and b
HierXDistance(a, b) == Abs(PositionOf(a).x - PositionOf(b).x)

\* C29: in the layout of a tree two distinct nodes of one depth are at least
\* 2 * HORIZONTAL_SPACING apart in x; every descendant of a node is within half
\* the node's subtree width of the node's x; and the subtrees of two children of
\* one parent do not interleave.
C29_LevelsSpacedSubtreesNested ==
    (HierDone /\ InputIsTree) =>
        LET xOf == [id \in PositionedIds |-> PositionOf(id).x]
            depthOf == [id \in PositionedIds |-> EdgesBelowRoot(id)]
            below == [id \in PositionedIds |-> ReachFrom({id})]
        IN  /\ \A a, b \in PositionedIds :
                   (a # b /\ depthOf[a] = depthOf[b]) =>
                       Abs(xOf[a] - xOf[b]) >= 2 * spacing.H
            /\ \A a \in PositionedIds :
                   \A d \in below[a] :
                       2 * Abs(xOf[a] - xOf[d]) <= subtreeWidths[a]
            /\ \A id \in OrderedParents :
                   \A i, j \in 1..Len(childrenMap[id]) :
                       xOf[childrenMap[id][i]] < xOf[childrenMap[id][j]] =>
                           \A d \in below[childrenMap[id][i]], e \in below[childrenMap[id][j]] :
                               xOf[d] < xOf[e]

\* a tree was laid out with two nodes of one depth under different parents,
\* exactly 2 * HORIZONTAL_SPACING apart
C29_Witness ==
    /\ HierDone
    /\ InputIsTree
    /\ \E a, b \in PositionedIds :
           /\ a # b
           /\ EdgesBelowRoot(a) = EdgesBelowRoot(b)
           /\ parentMap[a] # parentMap[b]
           /\ HierXDistance(a, b) = 2 * spacing.H

-----------------------------------------------------------------------------
(* handleAddDiscoveredContent: properties                                  *)

InsertDone == prog = "handleAddDiscoveredContent" /\ pc = "done" /\ Len(result) > 0

\* C20: after an insertion every node that was on the canvas before it has the
\* position it had: only the nodes inserted are moved.
C20_ExistingNodesKeepPositions ==
    InsertDone =>
        \A j \in 1..Len(scene.existing) :
            /\ result[j].id = scene.existing[j].id
            /\ heap[result[j].position] = [x |-> Num(scene.existing[j].x),
                                           y |-> Num(scene.existing[j].y)]

=============================================================================
